---- MODULE Spec2Model ----
(***************************************************************************)
(* Creator-athena-ai: the agent repositories (agentService.js, two         *)
(* variants), the voice repository (voiceService.js), the creator HTTP     *)
(* routes (creatorRoutes.js) and the connection pool they share per        *)
(* process.  One microservice is deployed per behaviour (variable          *)
(* service); its requests run concurrently and suspend at every await.     *)
(***************************************************************************)
EXTENDS Integers, Sequences, FiniteSets, TLC

\* ------------------------------------------------------------------ state
VARIABLES
  service,      \* the deployed microservice: "creator", "instructor", "voice"
  agents,       \* the agents table: a set of rows
  nextId,       \* the agents_id_seq sequence
  voices,       \* the user_voices table: a set of rows
  nextVoiceId,  \* the user_voices_id_seq sequence
  checkedOut,   \* connections of the pool currently checked out
  poolMax,      \* the pool's max option: connections it hands out at once
  pgNonDecimal, \* the database server reads 0x, 0o, 0b and _ in an integer
                \* (PostgreSQL 16 and later; the deployment names no version)
  req,          \* the in-flight requests, one record per slot
  started,      \* requests started so far
  issuedIds,    \* history: ids returned by a successful create
  deletedIds,   \* history: ids returned by a successful delete
  voiceHist     \* history per (user, voice): calls answered "saved", calls
                \* answered "already saved", deletes that removed the row

vars == <<service, agents, nextId, voices, nextVoiceId, checkedOut, poolMax,
          pgNonDecimal, req,
          started, issuedIds, deletedIds, voiceHist>>

dbVars == <<agents, nextId, voices, nextVoiceId>>
histVars == <<issuedIds, deletedIds, voiceHist>>

\* ------------------------------------------------------------------ bounds
\* Requests a behaviour may start in total.
MaxOps == 3

\* pg's default pool size (new Pool({...}) sets no max).
PoolSize == 10

\* The slots of concurrently served requests.
Reqs == {1, 2}

\* ------------------------------------------------------------- JS values
NULL == "null"
UNDEFINED == "undefined"
Digits == <<"0", "1", "2", "3", "4", "5", "6", "7", "8", "9">>
DigitSet == {Digits[i] : i \in 1..10}
HexLower == DigitSet \cup {"a", "b", "c", "d", "e", "f"}
HexSet == HexLower \cup {"A", "B", "C", "D", "E", "F"}

ToLower(c) ==
  CASE c = "A" -> "a" [] c = "B" -> "b" [] c = "C" -> "c"
    [] c = "D" -> "d" [] c = "E" -> "e" [] c = "F" -> "f"
    [] OTHER -> c

\* The value of a decimal or hexadecimal digit.
DigitVal(c) ==
  (CHOOSE i \in 1..16 :
     (Digits \o <<"a", "b", "c", "d", "e", "f">>)[i] = ToLower(c)) - 1

\* The integers of JavaScript that fit PostgreSQL's integer type; a number
\* beyond them is kept by the text String(n) gives it, which is what the
\* driver sends to the database.
MaxInt4 == 2147483647

\* A JavaScript number: NaN, an integer of the int4 range, or a larger one.
NaN == [nan |-> TRUE, big |-> FALSE, val |-> 0, text |-> <<>>]
JsInt(n) == [nan |-> FALSE, big |-> FALSE, val |-> n, text |-> <<>>]
isNaN(n) == n.nan

\* The white space parseInt skips (StrWhiteSpaceChar): tab, line feed,
\* vertical tab, form feed, carriage return, space, no-break space, U+1680,
\* U+FEFF, and U+2000..U+200A, U+2028, U+2029, U+202F, U+205F, U+3000, which
\* are written by their code points (a string of this module cannot hold
\* them).
JsSpaces ==
  {" ", "\t", "\n", "\r", "\f", "", " ", " ", "﻿",
   "\\u2000", "\\u2001", "\\u2002", "\\u2003", "\\u2004", "\\u2005",
   "\\u2006", "\\u2007", "\\u2008", "\\u2009", "\\u200a", "\\u2028",
   "\\u2029", "\\u202f", "\\u205f", "\\u3000"}

\* The white space PostgreSQL's integer input skips (isspace): space, tab,
\* line feed, vertical tab, form feed, carriage return.
PgSpaces == {" ", "\t", "\n", "\r", "\f", ""}

\* s without its leading characters of W.
RECURSIVE TrimLeft(_, _)
TrimLeft(s, W) ==
  IF Len(s) > 0 /\ s[1] \in W THEN TrimLeft(Tail(s), W) ELSE s

\* The longest prefix of s made of digits of radix R.
RECURSIVE DigitPrefix(_, _)
DigitPrefix(s, R) ==
  IF Len(s) = 0 \/ s[1] \notin (IF R = 16 THEN HexSet ELSE DigitSet) THEN <<>>
  ELSE <<s[1]>> \o DigitPrefix(Tail(s), R)

\* Minus the value of a digit string, accumulated from acc (<= 0); 1 when
\* the value leaves the int4 range.
RECURSIVE NegVal(_, _, _)
NegVal(s, R, acc) ==
  IF Len(s) = 0 THEN acc
  ELSE IF acc < (DigitVal(s[1]) + R - 2 - MaxInt4) \div R THEN 1
  ELSE NegVal(Tail(s), R, acc * R - DigitVal(s[1]))

\* String(n) for an integer of the int4 range.
RECURSIVE toString(_)
toString(n) ==
  IF n = -MaxInt4 - 1 THEN <<"-", "2">> \o toString(147483648)
  ELSE IF n < 0 THEN <<"-">> \o toString(-n)
  ELSE IF n < 10 THEN <<Digits[n + 1]>>
  ELSE toString(n \div 10) \o <<Digits[(n % 10) + 1]>>

\* Integers beyond the int4 range are decimal texts without leading zeros
\* (<<>> is zero).  The decimal text of text * R + carry.
RECURSIVE MulAdd(_, _, _)
MulAdd(text, R, carry) ==
  IF Len(text) = 0 THEN (IF carry = 0 THEN <<>> ELSE toString(carry))
  ELSE LET v == DigitVal(text[Len(text)]) * R + carry
           rest == SubSeq(text, 1, Len(text) - 1)
       IN IF v < 10 THEN Append(MulAdd(rest, R, 0), Digits[v + 1])
          ELSE Append(MulAdd(rest, R, v \div 10), Digits[(v % 10) + 1])

\* The decimal text of a digit string of radix R.
RECURSIVE DecimalText(_, _, _)
DecimalText(s, R, text) ==
  IF Len(s) = 0 THEN text
  ELSE LET t == MulAdd(text, R, DigitVal(s[1])) IN
         IF t = <<>> THEN DecimalText(Tail(s), R, <<>>)
         ELSE DecimalText(Tail(s), R, t)

\* a < b
TextLess(a, b) ==
  \/ Len(a) < Len(b)
  \/ /\ Len(a) = Len(b)
     /\ \E i \in 1..Len(a) :
          /\ DigitVal(a[i]) < DigitVal(b[i])
          /\ \A j \in 1..(i - 1) : a[j] = b[j]

\* a + b + carry
RECURSIVE TextAdd(_, _, _)
TextAdd(a, b, carry) ==
  IF a = <<>> /\ b = <<>> THEN (IF carry = 0 THEN <<>> ELSE <<"1">>)
  ELSE LET v == (IF a = <<>> THEN 0 ELSE DigitVal(a[Len(a)]))
                + (IF b = <<>> THEN 0 ELSE DigitVal(b[Len(b)])) + carry
           x == SubSeq(a, 1, Len(a) - 1)
           y == SubSeq(b, 1, Len(b) - 1)
       IN IF v < 10 THEN Append(TextAdd(x, y, 0), Digits[v + 1])
          ELSE Append(TextAdd(x, y, 1), Digits[v - 9])

\* The whole part of a / 2, digit by digit: an odd digit carries 10 into
\* the next one.
TextHalf(a) ==
  LET h == [i \in 1..Len(a) |->
              Digits[((IF i > 1 /\ DigitVal(a[i - 1]) % 2 = 1 THEN 10 ELSE 0)
                       + DigitVal(a[i])) \div 2 + 1]]
  IN IF a # <<>> /\ h[1] = "0" THEN Tail(h) ELSE h

\* a * 2^e
RECURSIVE TextShift(_, _)
TextShift(a, e) ==
  IF e = 0 THEN a
  ELSE LET b == MulAdd(a, 2, 0) IN
         IF b = <<>> THEN b ELSE TextShift(b, e - 1)

\* 2^53: every integer up to it is a JavaScript number (a double).
Two53 ==
  <<"9", "0", "0", "7", "1", "9", "9", "2", "5", "4", "7", "4", "0", "9",
    "9", "2">>

\* The double nearest to an integer above 2^53, ties to the even mantissa,
\* as mantissa m in [2^52, 2^53) and exponent e (the double is m * 2^e).
\* The integer is m * 2^e plus the bits shifted out so far: round is the
\* last of them, sticky tells whether an earlier one was set.
RECURSIVE nearestDouble(_, _, _, _)
nearestDouble(m, e, round, sticky) ==
  LET odd == DigitVal(m[Len(m)]) % 2 = 1 IN
    IF ~TextLess(m, Two53)
      THEN CASE odd /\ (sticky \/ round) ->
                  nearestDouble(TextHalf(m), e + 1, TRUE, TRUE)
             [] odd /\ ~(sticky \/ round) ->
                  nearestDouble(TextHalf(m), e + 1, TRUE, FALSE)
             [] ~odd /\ (sticky \/ round) ->
                  nearestDouble(TextHalf(m), e + 1, FALSE, TRUE)
             [] OTHER -> nearestDouble(TextHalf(m), e + 1, FALSE, FALSE)
    ELSE LET up == IF round /\ (sticky \/ odd) THEN MulAdd(m, 1, 1) ELSE m
         IN IF up = Two53 THEN [m |-> TextHalf(up), e |-> e + 1]
            ELSE [m |-> up, e |-> e]

\* The decimal text with the fewest significant digits that reads back as
\* the double d: of the multiples of 10^p next to d, one that lies nearer to
\* d than to its neighbours (lo and hi are half the distance to the double
\* below and above; the bounds count when the mantissa is even), for the
\* largest such p.
RECURSIVE shortestText(_, _, _, _, _)
shortestText(d, lo, hi, even, p) ==
  LET prefix == SubSeq(d, 1, Len(d) - p)
      zeros == [i \in 1..p |-> "0"]
      down == prefix \o zeros
      up == MulAdd(prefix, 1, 1) \o zeros
      downIn == /\ prefix # <<>>
                /\ IF even THEN ~TextLess(TextAdd(down, lo, 0), d)
                   ELSE TextLess(d, TextAdd(down, lo, 0))
      upIn == IF even THEN ~TextLess(TextAdd(d, hi, 0), up)
              ELSE TextLess(up, TextAdd(d, hi, 0))
  IN IF downIn /\ (~upIn \/ TextLess(MulAdd(d, 2, 0), TextAdd(down, up, 0)))
       THEN down
     ELSE IF upIn THEN up
     ELSE shortestText(d, lo, hi, even, p - 1)

\* String(n) for the number parseInt makes of the integer n (a decimal
\* text): n itself up to 2^53, beyond it the shortest text of the nearest
\* double, in exponent form from 10^21 on, Infinity beyond the doubles.
doubleText(n) ==
  IF ~TextLess(Two53, n) THEN n
  ELSE IF Len(n) > 309 THEN <<"I", "n", "f", "i", "n", "i", "t", "y">>
  ELSE CHOOSE text \in
         { IF b.e > 971 THEN <<"I", "n", "f", "i", "n", "i", "t", "y">>
           ELSE CHOOSE x \in
                  { IF Len(t) <= 21 THEN t
                    ELSE LET k == CHOOSE i \in 1..Len(t) :
                                    /\ t[i] # "0"
                                    /\ \A j \in (i + 1)..Len(t) : t[j] = "0"
                         IN <<t[1]>>
                              \o (IF k > 1 THEN <<".">> \o SubSeq(t, 2, k)
                                  ELSE <<>>)
                              \o <<"e", "+">> \o toString(Len(t) - 1)
                    : t \in { shortestText(
                                d,
                                IF b.m = TextHalf(Two53) THEN TextHalf(hi)
                                ELSE hi,
                                hi, DigitVal(b.m[Len(b.m)]) % 2 = 0, Len(d))
                              : d \in {TextShift(b.m, b.e)},
                                hi \in {TextShift(<<"1">>, b.e - 1)} } } : TRUE
           : b \in {nearestDouble(n, 0, FALSE, FALSE)} } : TRUE

\* Numbers no int4 column holds, as they are written in a URL: 99999999999;
\* 9007199254740993, above 2^53, which parseInt rounds to 9007199254740992;
\* and 10^21, which String() writes as 1e+21.
BigOwners ==
  << <<"9", "9", "9", "9", "9", "9", "9", "9", "9", "9", "9">>,
     <<"9", "0", "0", "7", "1", "9", "9", "2", "5", "4", "7", "4", "0", "9",
       "9", "3">>,
     <<"1">> \o [i \in 1..21 |-> "0"] >>

\* String(n) of the numbers above, worked out once.
knownTexts ==
  (BigOwners[1] :> doubleText(BigOwners[1]))
    @@ (BigOwners[2] :> doubleText(BigOwners[2]))
    @@ (BigOwners[3] :> doubleText(BigOwners[3]))
numberText(n) ==
  IF n \in DOMAIN knownTexts THEN knownTexts[n] ELSE doubleText(n)

\* JavaScript parseInt(s) without a radix: leading white space is skipped,
\* then a sign, then 0x or 0X selects radix 16, then the longest run of
\* digits is read; NaN when that run is empty.
parseInt(s) ==
  LET t == TrimLeft(s, JsSpaces)
      neg == Len(t) > 0 /\ t[1] = "-"
      u == IF Len(t) > 0 /\ t[1] \in {"+", "-"} THEN Tail(t) ELSE t
      hex == Len(u) >= 2 /\ u[1] = "0" /\ u[2] \in {"x", "X"}
      R == IF hex THEN 16 ELSE 10
      run == DigitPrefix(IF hex THEN SubSeq(u, 3, Len(u)) ELSE u, R)
      acc == NegVal(run, R, 0)
  IN IF run = <<>> THEN NaN
     ELSE IF acc = 1 \/ (~neg /\ acc = -MaxInt4 - 1)
       THEN [nan |-> FALSE, big |-> TRUE, val |-> 0,
             text |-> (IF neg THEN <<"-">> ELSE <<>>)
                        \o numberText(DecimalText(run, R, <<>>))]
     ELSE JsInt(IF neg THEN acc ELSE -acc)

\* ----------------------------------------------------------- the database
\* users.id of the rows of the users table.
Users == {1, 2}

\* The row of the users table with this id: id, user_id, email.
userRow(n) ==
  [id |-> n, user_id |-> <<"u">> \o toString(n),
   email |-> <<"u">> \o toString(n) \o <<"@", "x">>]

\* PostgreSQL's integer input (pg_strtoint32) reading the digits of u in
\* radix R: acc is minus the value read so far, any tells whether a digit
\* has been read.  A server that reads the non-decimal forms (v16) holds the
\* value unsigned, so a value just beyond 2^31 is noted (over) and refused
\* once the text has been read to its end, and it takes "_" between digits;
\* an earlier server refuses the digit that leaves the int4 range.
RECURSIVE pgDigits(_, _, _, _, _, _)
pgDigits(u, R, acc, over, any, v16) ==
  IF u # <<>> /\ u[1] \in HexSet /\ DigitVal(u[1]) < R
    THEN IF over \/ (v16 /\ acc < -((MaxInt4 - (R - 1)) \div R + 1))
           THEN [code |-> "22003", acc |-> 0, over |-> FALSE, any |-> TRUE,
                 rest |-> <<>>]
         ELSE IF acc < (DigitVal(u[1]) + R - 2 - MaxInt4) \div R
           THEN (IF v16 THEN pgDigits(Tail(u), R, acc, TRUE, TRUE, v16)
                 ELSE [code |-> "22003", acc |-> 0, over |-> FALSE,
                       any |-> TRUE, rest |-> <<>>])
         ELSE pgDigits(Tail(u), R, acc * R - DigitVal(u[1]), FALSE, TRUE,
                       v16)
  ELSE IF v16 /\ u # <<>> /\ u[1] = "_"
    THEN IF \/ R = 10 /\ ~any
            \/ Len(u) < 2
            \/ ~(u[2] \in HexSet /\ DigitVal(u[2]) < R)
           THEN [code |-> "22P02", acc |-> 0, over |-> FALSE, any |-> any,
                 rest |-> <<>>]
           ELSE pgDigits(Tail(u), R, acc, over, any, v16)
  ELSE [code |-> "ok", acc |-> acc, over |-> over, any |-> any, rest |-> u]

\* PostgreSQL reading a text parameter for an integer column: white space
\* is skipped, a sign is read, then (v16) a prefix 0x, 0o or 0b, then the
\* digits, then white space to the end; error 22P02 for any other text,
\* 22003 for a value outside the int4 range.
pgIntIn(s, v16) ==
  LET t == TrimLeft(s, PgSpaces)
      neg == Len(t) > 0 /\ t[1] = "-"
      u == IF Len(t) > 0 /\ t[1] \in {"+", "-"} THEN Tail(t) ELSE t
      R == IF v16 /\ Len(u) >= 2 /\ u[1] = "0"
             THEN (CASE u[2] \in {"x", "X"} -> 16
                     [] u[2] \in {"o", "O"} -> 8
                     [] u[2] \in {"b", "B"} -> 2
                     [] OTHER -> 10)
             ELSE 10
  IN CHOOSE v \in
       { IF d.code # "ok" THEN [code |-> d.code, val |-> 0]
         ELSE IF ~d.any \/ TrimLeft(d.rest, PgSpaces) # <<>>
           THEN [code |-> "22P02", val |-> 0]
         ELSE IF d.over \/ (~neg /\ d.acc = -MaxInt4 - 1)
           THEN [code |-> "22003", val |-> 0]
         ELSE [code |-> "ok", val |-> IF neg THEN d.acc ELSE -d.acc] :
         d \in {pgDigits(IF R = 10 THEN u ELSE SubSeq(u, 3, Len(u)), R, 0,
                         FALSE, FALSE, v16)} } : TRUE

\* The same on the deployed server (read once per text).
PgInt(s) ==
  CHOOSE v \in {pgIntIn(t, pgNonDecimal) : t \in {s}} : TRUE

\* PostgreSQL's uuid input is case-insensitive and stored in lower case.
PgUuid(s) == [i \in 1..Len(s) |-> ToLower(s[i])]

\* agents.agent_id of the row whose serial id is n (a column default).
UUIDOf(n) ==
  <<"0", "0", "0", "0", "0", "0", "0", "a", "-",
    "0", "0", "0", "0", "-", "0", "0", "0", "0", "-",
    "0", "0", "0", "0", "-",
    "0", "0", "0", "0", "0", "0", "0", "0", "0", "0", "0", Digits[n + 1]>>

\* Mutant: the pattern without its i flag.
isUUIDCaseSensitive(s) ==
  /\ Len(s) = 36
  /\ \A i \in 1..36 :
       IF i \in {9, 14, 19, 24} THEN s[i] = "-" ELSE s[i] \in HexLower

\* /^[0-9a-f]{8}-[0-9a-f]{4}-[0-9a-f]{4}-[0-9a-f]{4}-[0-9a-f]{12}$/i
isUUID(s) ==
  /\ Len(s) = 36
  /\ \A i \in 1..36 :
       IF i \in {9, 14, 19, 24} THEN s[i] = "-" ELSE s[i] \in HexSet

Has(p, k) == k \in DOMAIN p

\* JavaScript truthiness of p[k] for a numeric and for a string value.
TruthyNum(p, k) == Has(p, k) /\ p[k] # 0
TruthyStr(p, k) == Has(p, k) /\ p[k] # ""

\* The same for a query-string value held as its characters.
TruthyText(p, k) == Has(p, k) /\ p[k] # <<>>

\* ------------------------------------------------------------- messages
\* Messages are kept as character sequences, so that String.includes is
\* computed on the text the caller receives.
\* "Agent not found or access denied"
MsgNotFound ==
  <<"A", "g", "e", "n", "t", " ", "n", "o", "t", " ", "f", "o", "u", "n",
    "d", " ", "o", "r", " ", "a", "c", "c", "e", "s", "s", " ", "d", "e",
    "n", "i", "e", "d">>

\* "No valid fields to update"
MsgNoValidFields ==
  <<"N", "o", " ", "v", "a", "l", "i", "d", " ", "f", "i", "e", "l", "d",
    "s", " ", "t", "o", " ", "u", "p", "d", "a", "t", "e">>

\* "creator_id and name are required"
MsgCreatorRequired ==
  <<"c", "r", "e", "a", "t", "o", "r", "_", "i", "d", " ", "a", "n", "d",
    " ", "n", "a", "m", "e", " ", "a", "r", "e", " ", "r", "e", "q", "u",
    "i", "r", "e", "d">>

\* "instructor_id and name are required"
MsgInstructorRequired ==
  <<"i", "n", "s", "t", "r", "u", "c", "t", "o", "r", "_", "i", "d", " ",
    "a", "n", "d", " ", "n", "a", "m", "e", " ", "a", "r", "e", " ", "r",
    "e", "q", "u", "i", "r", "e", "d">>

\* "Invalid role. Must be one of: free, paid"
MsgInvalidRole ==
  <<"I", "n", "v", "a", "l", "i", "d", " ", "r", "o", "l", "e", ".", " ",
    "M", "u", "s", "t", " ", "b", "e", " ", "o", "n", "e", " ", "o", "f",
    ":", " ", "f", "r", "e", "e", ",", " ", "p", "a", "i", "d">>

\* "Invalid visibility. Must be one of: private, campus, public"
MsgInvalidVisibility ==
  <<"I", "n", "v", "a", "l", "i", "d", " ", "v", "i", "s", "i", "b", "i",
    "l", "i", "t", "y", ".", " ", "M", "u", "s", "t", " ", "b", "e", " ",
    "o", "n", "e", " ", "o", "f", ":", " ", "p", "r", "i", "v", "a", "t",
    "e", ",", " ", "c", "a", "m", "p", "u", "s", ",", " ", "p", "u", "b",
    "l", "i", "c">>

\* "Invalid visibility. Must be: private, campus, or public"
MsgVisibilityConstraint ==
  <<"I", "n", "v", "a", "l", "i", "d", " ", "v", "i", "s", "i", "b", "i",
    "l", "i", "t", "y", ".", " ", "M", "u", "s", "t", " ", "b", "e", ":",
    " ", "p", "r", "i", "v", "a", "t", "e", ",", " ", "c", "a", "m", "p",
    "u", "s", ",", " ", "o", "r", " ", "p", "u", "b", "l", "i", "c">>

\* "Invalid creator_id - user does not exist"
MsgInvalidCreator ==
  <<"I", "n", "v", "a", "l", "i", "d", " ", "c", "r", "e", "a", "t", "o",
    "r", "_", "i", "d", " ", "-", " ", "u", "s", "e", "r", " ", "d", "o",
    "e", "s", " ", "n", "o", "t", " ", "e", "x", "i", "s", "t">>

\* "Invalid instructor_id - user does not exist"
MsgInvalidInstructor ==
  <<"I", "n", "v", "a", "l", "i", "d", " ", "i", "n", "s", "t", "r", "u",
    "c", "t", "o", "r", "_", "i", "d", " ", "-", " ", "u", "s", "e", "r",
    " ", "d", "o", "e", "s", " ", "n", "o", "t", " ", "e", "x", "i", "s",
    "t">>

\* "Validation failed"
MsgValidationFailed ==
  <<"V", "a", "l", "i", "d", "a", "t", "i", "o", "n", " ", "f", "a", "i",
    "l", "e", "d">>

\* "creator_id query parameter is required"
MsgCreatorQueryRequired ==
  <<"c", "r", "e", "a", "t", "o", "r", "_", "i", "d", " ", "q", "u", "e",
    "r", "y", " ", "p", "a", "r", "a", "m", "e", "t", "e", "r", " ", "i",
    "s", " ", "r", "e", "q", "u", "i", "r", "e", "d">>

\* "creator_id is required in request body"
MsgCreatorBodyRequired ==
  <<"c", "r", "e", "a", "t", "o", "r", "_", "i", "d", " ", "i", "s", " ",
    "r", "e", "q", "u", "i", "r", "e", "d", " ", "i", "n", " ", "r", "e",
    "q", "u", "e", "s", "t", " ", "b", "o", "d", "y">>

\* "creator_id must be a valid number"
MsgCreatorNumber ==
  <<"c", "r", "e", "a", "t", "o", "r", "_", "i", "d", " ", "m", "u", "s",
    "t", " ", "b", "e", " ", "a", " ", "v", "a", "l", "i", "d", " ", "n",
    "u", "m", "b", "e", "r">>

\* "Agent created successfully"
MsgCreated ==
  <<"A", "g", "e", "n", "t", " ", "c", "r", "e", "a", "t", "e", "d", " ",
    "s", "u", "c", "c", "e", "s", "s", "f", "u", "l", "l", "y">>

\* "Agents retrieved successfully"
MsgListed ==
  <<"A", "g", "e", "n", "t", "s", " ", "r", "e", "t", "r", "i", "e", "v",
    "e", "d", " ", "s", "u", "c", "c", "e", "s", "s", "f", "u", "l", "l",
    "y">>

\* "Agent retrieved successfully"
MsgRetrieved ==
  <<"A", "g", "e", "n", "t", " ", "r", "e", "t", "r", "i", "e", "v", "e",
    "d", " ", "s", "u", "c", "c", "e", "s", "s", "f", "u", "l", "l", "y">>

\* "Agent updated successfully"
MsgUpdated ==
  <<"A", "g", "e", "n", "t", " ", "u", "p", "d", "a", "t", "e", "d", " ",
    "s", "u", "c", "c", "e", "s", "s", "f", "u", "l", "l", "y">>

\* "Agent deleted successfully"
MsgDeleted ==
  <<"A", "g", "e", "n", "t", " ", "d", "e", "l", "e", "t", "e", "d", " ",
    "s", "u", "c", "c", "e", "s", "s", "f", "u", "l", "l", "y">>

\* "Voice saved successfully"
MsgVoiceSaved ==
  <<"V", "o", "i", "c", "e", " ", "s", "a", "v", "e", "d", " ", "s", "u",
    "c", "c", "e", "s", "s", "f", "u", "l", "l", "y">>

\* "Voice already saved for this user"
MsgVoiceAlready ==
  <<"V", "o", "i", "c", "e", " ", "a", "l", "r", "e", "a", "d", "y", " ",
    "s", "a", "v", "e", "d", " ", "f", "o", "r", " ", "t", "h", "i", "s",
    " ", "u", "s", "e", "r">>

\* "User voices retrieved successfully"
MsgVoicesListed ==
  <<"U", "s", "e", "r", " ", "v", "o", "i", "c", "e", "s", " ", "r", "e",
    "t", "r", "i", "e", "v", "e", "d", " ", "s", "u", "c", "c", "e", "s",
    "s", "f", "u", "l", "l", "y">>

\* "Voice not found for this user"
MsgVoiceNotFound ==
  <<"V", "o", "i", "c", "e", " ", "n", "o", "t", " ", "f", "o", "u", "n",
    "d", " ", "f", "o", "r", " ", "t", "h", "i", "s", " ", "u", "s", "e",
    "r">>

\* "Voice deleted successfully"
MsgVoiceDeleted ==
  <<"V", "o", "i", "c", "e", " ", "d", "e", "l", "e", "t", "e", "d", " ",
    "s", "u", "c", "c", "e", "s", "s", "f", "u", "l", "l", "y">>

\* "Provide either email or user_id query parameter"
MsgProvideEmailOrUserId ==
  <<"P", "r", "o", "v", "i", "d", "e", " ", "e", "i", "t", "h", "e", "r",
    " ", "e", "m", "a", "i", "l", " ", "o", "r", " ", "u", "s", "e", "r",
    "_", "i", "d", " ", "q", "u", "e", "r", "y", " ", "p", "a", "r", "a",
    "m", "e", "t", "e", "r">>

\* "User not found"
MsgUserNotFound ==
  <<"U", "s", "e", "r", " ", "n", "o", "t", " ", "f", "o", "u", "n", "d">>

\* Invalid agent_type. Must be: instructor, it_support, or administration
MsgInvalidAgentType ==
  <<"I", "n", "v", "a", "l", "i", "d", " ", "a", "g", "e", "n", "t", "_",
    "t", "y", "p", "e", ".", " ", "M", "u", "s", "t", " ", "b", "e", ":",
    " ", "i", "n", "s", "t", "r", "u", "c", "t", "o", "r", ",", " ", "i",
    "t", "_", "s", "u", "p", "p", "o", "r", "t", ",", " ", "o", "r", " ",
    "a", "d", "m", "i", "n", "i", "s", "t", "r", "a", "t", "i", "o", "n">>

\* PostgreSQL's own messages, passed on when the repository does not
\* translate them.  The two input errors quote the parameter text.
\* invalid input syntax for type integer: "<text>"
pgSyntaxMessage(text) ==
  <<"i", "n", "v", "a", "l", "i", "d", " ", "i", "n", "p", "u", "t", " ",
    "s", "y", "n", "t", "a", "x", " ", "f", "o", "r", " ", "t", "y", "p",
    "e", " ", "i", "n", "t", "e", "g", "e", "r", ":", " ", "\"">>
    \o text \o <<"\"">>

\* value "<text>" is out of range for type integer
pgRangeMessage(text) ==
  <<"v", "a", "l", "u", "e", " ", "\"">>
    \o text \o
  <<"\"", " ", "i", "s", " ", "o", "u", "t", " ", "o", "f", " ", "r", "a",
    "n", "g", "e", " ", "f", "o", "r", " ", "t", "y", "p", "e", " ", "i",
    "n", "t", "e", "g", "e", "r">>

\* insert or update on table "agents" violates foreign key constraint "..."
MsgPgForeignKey ==
  <<"i", "n", "s", "e", "r", "t", " ", "o", "r", " ", "u", "p", "d", "a",
    "t", "e", " ", "o", "n", " ", "t", "a", "b", "l", "e", " ", "\"", "a",
    "g", "e", "n", "t", "s", "\"", " ", "v", "i", "o", "l", "a", "t", "e",
    "s", " ", "f", "o", "r", "e", "i", "g", "n", " ", "k", "e", "y", " ",
    "c", "o", "n", "s", "t", "r", "a", "i", "n", "t", " ", "\"", "a", "g",
    "e", "n", "t", "s", "_", "o", "w", "n", "e", "r", "_", "f", "k", "e",
    "y", "\"">>

\* new row for relation "agents" violates check constraint "..."
MsgPgCheck ==
  <<"n", "e", "w", " ", "r", "o", "w", " ", "f", "o", "r", " ", "r", "e",
    "l", "a", "t", "i", "o", "n", " ", "\"", "a", "g", "e", "n", "t", "s",
    "\"", " ", "v", "i", "o", "l", "a", "t", "e", "s", " ", "c", "h", "e",
    "c", "k", " ", "c", "o", "n", "s", "t", "r", "a", "i", "n", "t", " ",
    "\"", "a", "g", "e", "n", "t", "s", "_", "e", "n", "u", "m", "_", "c",
    "h", "e", "c", "k", "\"">>

\* The error an integer parameter with this text raises, or <<>>.
pgIntError(text) ==
  IF PgInt(text).code = "22P02" THEN pgSyntaxMessage(text)
  ELSE IF PgInt(text).code = "22003" THEN pgRangeMessage(text)
  ELSE <<>>

\* The characters of "not found".
NotFoundText ==
  <<"n", "o", "t", " ", "f", "o", "u", "n", "d">>

\* error.message.includes("not found")
includesNotFound(msg) ==
  \E m \in {msg} :
    \E i \in 1..(Len(m) - Len(NotFoundText) + 1) :
      SubSeq(m, i, i + Len(NotFoundText) - 1) = NotFoundText

\* ------------------------------------------------------- validation layer
\* A typed JSON value, where typeof is consulted: [type, val].
Num(n) == [type |-> "number", val |-> n]

Str(x) == [type |-> "string", val |-> x]
TruthyVal(v) == IF v.type = "number" THEN v.val # 0 ELSE v.val # ""

validVisibility == {"private", "campus", "public"}
validRoles == {"free", "paid"}

\* Temperatures are held in tenths: 0..20 is [0, 2].
TemperatureOk(t) == t.type = "number" /\ t.val >= 0 /\ t.val <= 20

\* Mutant: the required-field checks ignore the isUpdate flag.
validateAlwaysRequired(data, isUpdate) ==
  (IF ~TruthyNum(data, "creator_id")
     THEN <<"creator_id is required">> ELSE <<>>)
  \o (IF ~TruthyStr(data, "name")
        THEN <<"name is required">> ELSE <<>>)
  \o (IF TruthyStr(data, "visibility") /\ data.visibility \notin validVisibility
        THEN <<"visibility must be one of: private, campus, public">> ELSE <<>>)
  \o (IF Has(data, "temperature") /\ ~TemperatureOk(data.temperature)
        THEN <<"temperature must be a number between 0 and 2">> ELSE <<>>)
  \o (IF Has(data, "model_type") /\ TruthyVal(data.model_type)
           /\ data.model_type.type # "string"
        THEN <<"model_type must be a string">> ELSE <<>>)

validateAgentInput(data, isUpdate) ==
  (IF ~isUpdate /\ ~TruthyNum(data, "creator_id")
     THEN <<"creator_id is required">> ELSE <<>>)
  \o (IF ~isUpdate /\ ~TruthyStr(data, "name")
        THEN <<"name is required">> ELSE <<>>)
  \o (IF TruthyStr(data, "visibility") /\ data.visibility \notin validVisibility
        THEN <<"visibility must be one of: private, campus, public">> ELSE <<>>)
  \o (IF Has(data, "temperature") /\ ~TemperatureOk(data.temperature)
        THEN <<"temperature must be a number between 0 and 2">> ELSE <<>>)
  \o (IF Has(data, "model_type") /\ TruthyVal(data.model_type)
           /\ data.model_type.type # "string"
        THEN <<"model_type must be a string">> ELSE <<>>)

\* --------------------------------------------------------------- SQL rows
\* The owner column of agents in each variant.
ownerKey(svc) == IF svc = "instructor" THEN "instructor_id" ELSE "creator_id"

\* The lookup column of getAgentById / updateAgent / deleteAgent.
byAgentId(svc, agentId) == svc = "instructor" /\ isUUID(agentId)

\* The id part of the WHERE clause: agent_id = $1, or id = $1.
namedBy(svc, row, agentId) ==
  IF byAgentId(svc, agentId)
    THEN row.agent_id = PgUuid(agentId)
    ELSE PgInt(agentId).code = "ok" /\ row.id = PgInt(agentId).val

\* The statement fails in PostgreSQL: the id is no integer literal.
BadIdParam(svc, agentId) ==
  ~byAgentId(svc, agentId) /\ PgInt(agentId).code # "ok"

\* Mutant: the statement is scoped by id alone.
whereIdOnly(svc, row, agentId, owner) == namedBy(svc, row, agentId)

\* WHERE (agent_id | id) = $1 AND (instructor_id | creator_id) = $2
whereIdAndOwner(svc, row, agentId, owner) ==
  namedBy(svc, row, agentId) /\ row[ownerKey(svc)] = owner

\* The update allow-list of each variant.
\* Mutant: the allow-lists also hold the id and owner columns.
allowedFieldsAndKeys(svc) ==
  IF svc = "instructor"
    THEN {"name", "description", "avatar_url", "model_type", "temperature",
          "visibility", "id", "instructor_id"}
  ELSE IF svc = "typed"
    THEN {"agent_type", "domain", "campus", "region", "courses",
          "personality", "id", "creator_id"}
    ELSE {"name", "description", "personality_name", "tone", "trait_array",
          "system_prompt", "model", "temperature", "max_tokens", "is_active",
          "role", "price_amount", "price_currency", "id", "creator_id"}

allowedFields(svc) ==
  IF svc = "instructor"
    THEN {"name", "description", "avatar_url", "model_type", "temperature",
          "visibility"}
  ELSE IF svc = "typed"
    THEN {"agent_type", "domain", "campus", "region", "courses",
          "personality"}
    ELSE {"name", "description", "personality_name", "tone", "trait_array",
          "system_prompt", "model", "temperature", "max_tokens", "is_active",
          "role", "price_amount", "price_currency"}

\* Mutant: every key of the patch goes into the SET list.
updateFieldsUnfiltered(svc, updates) == updates

\* for (const [key, value] of Object.entries(updates)) if allowed: keep.
updateFields(svc, updates) ==
  [k \in (DOMAIN updates) \cap allowedFields(svc) |-> updates[k]]

\* SET <fields> on one row; columns the model does not hold are dropped.
setFields(row, fields) ==
  [c \in DOMAIN row |-> IF c \in DOMAIN fields THEN fields[c] ELSE row[c]]

\* The values the agent_type CHECK constraint admits (named by the message
\* the typed variant gives its violation).
validAgentTypes == {"instructor", "it_support", "administration"}

\* The CHECK constraint of the agents table on its enumerated column (a
\* CHECK passes on NULL).
checkViolation(svc, row) ==
  IF svc = "instructor" THEN row.visibility \notin validVisibility
  ELSE IF svc = "typed" THEN row.agent_type \notin validAgentTypes \cup {NULL}
  ELSE row.role \notin validRoles

\* The FOREIGN KEY of the owner column to users.id.
fkViolation(owner) == owner \notin Users

\* Rows ordered newest first (ids are assigned in creation order).
RECURSIVE newestFirst(_)
newestFirst(rows) ==
  IF rows = {} THEN <<>>
  ELSE LET top == CHOOSE x \in rows : \A y \in rows : y.id <= x.id
       IN <<top>> \o newestFirst(rows \ {top})

\* The users and voice ids the voice repository is called with.
VoicePairs == {1, 2} \X {"alloy", "echo"}

NoResp ==
  [status |-> 0, success |-> FALSE, message |-> <<>>, errors |-> <<>>,
   kind |-> "absent", data |-> <<>>]

IdleReq ==
  [pc |-> "idle", op |-> "none", agentId |-> <<>>, owner |-> 0,
   voiceId |-> "", body |-> <<>>, tuuid |-> NULL, found |-> "na",
   acq |-> 0, rel |-> 0, afterDel |-> FALSE, waited |-> FALSE,
   pending |-> 0, ownerErr |-> <<>>, agentsCount |-> 0,
   ret |-> NoResp, turn |-> 0, resp |-> NoResp]

Init ==
  /\ service \in {"creator", "instructor", "voice"}
  /\ agents = {}
  /\ nextId = 1
  /\ voices = {}
  /\ nextVoiceId = 1
  /\ checkedOut = 0
  /\ poolMax = PoolSize
  /\ pgNonDecimal \in BOOLEAN
  /\ req = [r \in Reqs |-> IdleReq]
  /\ started = 0
  /\ issuedIds = {}
  /\ deletedIds = {}
  /\ voiceHist = [p \in VoicePairs |-> [saved |-> 0, already |-> 0, deleted |-> 0]]

\* ---------------------------------------------------------------- results
\* { success: true, message, data }
Success(msg, kind, data) ==
  [status |-> 0, success |-> TRUE, message |-> msg, errors |-> <<>>,
   kind |-> kind, data |-> data]

\* A thrown Error(msg), as the caller of the repository sees it.
Thrown(msg) ==
  [status |-> 0, success |-> FALSE, message |-> msg, errors |-> <<>>,
   kind |-> "thrown", data |-> <<>>]

\* res.status(400).json({ success: false, message, errors })
badRequest(msg, errors) ==
  [status |-> 400, success |-> FALSE, message |-> msg, errors |-> errors,
   kind |-> "absent", data |-> <<>>]

\* Mutant: every catch block answers 500.
catchStatusAlways500(op, msg) == 500

\* The catch block of a route: 404 on "not found" where the route looks for
\* it, 500 otherwise.
catchStatus(op, msg) ==
  IF op \in {"get", "update", "delete"} /\ includesNotFound(msg)
    THEN 404 ELSE 500

\* The services whose repository is called through the routes of
\* creatorRoutes.js.
Routed == {"creator", "typed"}

\* What the HTTP caller receives for a repository result (routed services);
\* the other services have no route layer here and expose the result itself.
respond(svc, op, result) ==
  IF svc \notin Routed THEN result
  ELSE IF result.success
    THEN [result EXCEPT !.status = IF op = "create" THEN 201 ELSE 200]
    ELSE [status |-> catchStatus(op, result.message), success |-> FALSE,
          message |-> result.message, errors |-> <<>>, kind |-> "absent",
          data |-> <<>>]

\* Mutant: release on the success path only (no finally).
releaseUnlessThrown(n, threw) == IF threw THEN n ELSE n - 1

\* Mutant: the client is never given back to the pool.
releaseNever(n, threw) == n

\* finally { client.release(); }
release(n, threw) == n - 1

\* The handlers that take a client themselves (the debug routes): they
\* answer before their finally block releases it.
DebugOps == {"schema", "user"}

\* No continuation is waiting to run: the event loop takes its next event
\* (a request, the result of a statement, the connection of a client).
Quiet == \A q \in Reqs : req[q].pc \notin {"answer", "granted"}

\* The repository function of request q settles with res (finally has
\* released the client).  A route is suspended at its await of the
\* function: it resumes and answers in a later turn, after the routes whose
\* functions settled before.  The other services have no route: their
\* caller holds the result at once.
settle(svc, q, res) ==
  IF svc \in Routed /\ q.op \notin DebugOps
    THEN [q EXCEPT !.pc = "answer", !.rel = @ + 1, !.ret = res,
                   !.turn =
                      Cardinality({o \in Reqs : req[o].pc = "answer"}) + 1]
    ELSE [q EXCEPT !.pc = "done", !.rel = @ + 1, !.ret = res,
                   !.resp = respond(svc, q.op, res)]

\* Request r becomes x and its client goes back to a pool with n clients
\* checked out: the pool hands it at once to the head of its pending
\* queue, whose connect() is thereby resolved.
Released(r, x, n, threw) ==
  \E m \in {release(n, threw)}, rq \in {[req EXCEPT ![r] = x]} :
    LET head == {q \in Reqs : rq[q].pending = 1}
    IN IF m < poolMax /\ head # {}
         THEN /\ req' = [q \in Reqs |->
                          IF q \in head
                            THEN [rq[q] EXCEPT !.pc = "granted",
                                               !.acq = @ + 1, !.pending = 0]
                            ELSE [rq[q] EXCEPT
                                    !.pending = IF @ > 1 THEN @ - 1 ELSE 0]]
              /\ checkedOut' = m + 1
         ELSE /\ req' = rq
              /\ checkedOut' = m

\* The function of request r returns (or throws) result: the finally block
\* releases the connection and the function's promise settles.
FinishAs(r, result, found) ==
  \E res \in {result} :
    Released(r, settle(service, [req[r] EXCEPT !.found = found], res),
             checkedOut, ~res.success)

\* The route of request r resumes from its await with the function's
\* result, or in its catch block with what the function threw, and answers.
Answer(r) ==
  /\ req[r].pc = "answer"
  /\ req[r].turn = 1
  /\ req' = [q \in Reqs |->
               IF q = r
                 THEN [req[r] EXCEPT !.pc = "done", !.turn = 0,
                                     !.resp = respond(service, req[r].op,
                                                      req[r].ret)]
                 ELSE [req[q] EXCEPT !.turn = IF @ > 1 THEN @ - 1 ELSE 0]]
  /\ UNCHANGED <<service, poolMax, pgNonDecimal, dbVars, histVars, started,
                 checkedOut>>

\* The route answers without calling the repository.
Reject(r, op, resp) ==
  /\ req' = [req EXCEPT ![r] = [IdleReq EXCEPT !.pc = "done", !.op = op,
                                               !.resp = resp]]
  /\ UNCHANGED checkedOut

\* History: a delete of the row this id names has already succeeded.
idDeleted(svc, agentId) ==
  \E d \in deletedIds :
    IF byAgentId(svc, agentId) THEN UUIDOf(d) = PgUuid(agentId)
    ELSE PgInt(agentId).code = "ok" /\ d = PgInt(agentId).val

\* A new request takes the lowest free slot (slots are interchangeable),
\* once the slots of answered requests have been cleared (an answered
\* request does nothing more, so clearing it first loses no behaviour).
CanStart(r) ==
  /\ req[r].pc = "idle"
  /\ started < MaxOps
  /\ \A r2 \in Reqs : r2 < r => req[r2].pc # "idle"
  /\ \A r2 \in Reqs : req[r2].pc # "done"
  /\ Quiet

\* ----------------------------------------- agent repository (agentService.js)
\* The destructuring defaults of createAgent for the enumerated column.
enumOf(svc, data) ==
  IF svc = "instructor"
    THEN (IF Has(data, "visibility") THEN data.visibility ELSE "private")
  ELSE IF svc = "typed"
    THEN (IF Has(data, "agent_type") THEN data.agent_type ELSE NULL)
    ELSE (IF Has(data, "role") THEN data.role ELSE "free")

\* The checks createAgent makes before its first await: the message it
\* throws, or <<>>.
createRejects(svc, data) ==
  IF svc = "typed" THEN <<>>
  ELSE IF ~TruthyNum(data, ownerKey(svc)) \/ ~TruthyStr(data, "name")
    THEN (IF svc = "instructor" THEN MsgInstructorRequired
          ELSE MsgCreatorRequired)
  ELSE IF svc = "instructor" /\ enumOf(svc, data) \notin validVisibility
    THEN MsgInvalidVisibility
  ELSE IF svc = "creator" /\ enumOf(svc, data) \notin validRoles
    THEN MsgInvalidRole
  ELSE <<>>

\* The row INSERT ... RETURNING yields for the values createAgent passes.
insertedRow(svc, id, data, trainingApiUuid) ==
  IF svc = "instructor"
    THEN [id |-> id, agent_id |-> UUIDOf(id),
          instructor_id |-> data.instructor_id, name |-> data.name,
          visibility |-> enumOf(svc, data)]
  ELSE IF svc = "typed"
    THEN [id |-> id, creator_id |-> data.creator_id,
          agent_type |-> enumOf(svc, data),
          region |-> IF Has(data, "region") THEN data.region ELSE "Lebanon"]
    ELSE [id |-> id, creator_id |-> data.creator_id, name |-> data.name,
          role |-> enumOf(svc, data), training_api_uuid |-> trainingApiUuid]

\* Mutant: the id comes from a counter that is read but not advanced.
nextvalStuck(n) == n

\* The value the sequence hands to the next INSERT.
nextval(n) == n + 1

\* Where a repository function (or a debug route) first suspends once it
\* holds its client.
firstAwait(svc, op) ==
  CASE op = "create" /\ svc = "creator" -> "training"
    [] op = "create" -> "insert"
    [] op = "list" -> "list"
    [] op = "get" -> "select"
    [] op = "update" -> "probe"
    [] op = "delete" -> "delete"
    [] op = "clone" -> "vinsert"
    [] op = "voices" -> "vlist"
    [] op = "schema" -> "columns"
    [] op = "user" -> "userselect"
    [] OTHER -> "vdelete"

\* pool.connect() has resolved for request a, which holds its client: the
\* function runs up to its first await, or throws before it (createAgent's
\* own checks; finally releases), or answers before it (/debug/user:
\* if (!email && !user_id) return 400, then finally).
afterConnect(svc, a) ==
  LET rejects == createRejects(svc, a.body)
  IN IF a.op = "create" /\ rejects # <<>>
       THEN settle(svc, a, Thrown(rejects))
     ELSE IF /\ a.op = "user"
             /\ ~TruthyText(a.body, "email") /\ ~TruthyText(a.body, "user_id")
       THEN [a EXCEPT !.pc = "done", !.rel = @ + 1,
                      !.resp = badRequest(MsgProvideEmailOrUserId, <<>>)]
       ELSE [a EXCEPT !.pc = firstAwait(svc, a.op)]

\* The repository function is entered with the number owner as its owner
\* argument and suspends at: const client = await pool.connect().  The
\* promise resolves in a later turn of the event loop, also when a client
\* is free; when the pool is full (its clients are checked out or promised
\* to earlier requests) the request joins the pending queue.  ownerErr is
\* the error PostgreSQL will raise for an owner parameter it cannot read as
\* an integer, or <<>>.
Call(r, op, agentId, owner, voiceId, body) ==
  LET connecting == {q \in Reqs : req[q].pc = "connect" /\ req[q].pending = 0}
      queued == {q \in Reqs : req[q].pending > 0}
      full == checkedOut + Cardinality(connecting) >= poolMax
  IN /\ req' = [req EXCEPT ![r] =
                  [IdleReq EXCEPT !.pc = "connect", !.op = op,
                                  !.agentId = agentId, !.owner = owner.val,
                                  !.ownerErr =
                                     IF owner.big THEN pgIntError(owner.text)
                                     ELSE <<>>,
                                  !.voiceId = voiceId, !.body = body,
                                  !.waited = full,
                                  !.pending =
                                     IF full THEN Cardinality(queued) + 1
                                     ELSE 0,
                                  !.afterDel = idDeleted(service, agentId)]]
     /\ UNCHANGED checkedOut

\* pool.connect() resolves and the function goes on: in a turn of its own
\* for a client that was free or new, among the waiting continuations for
\* a client handed over on its release.
Connect(r) ==
  /\ IF req[r].pc = "granted" THEN TRUE
     ELSE /\ req[r].pc = "connect"
          /\ req[r].pending = 0
          /\ checkedOut < poolMax
          /\ Quiet
  /\ \E n \in {IF req[r].pc = "granted" THEN checkedOut ELSE checkedOut + 1},
        a \in {afterConnect(service,
                            IF req[r].pc = "granted" THEN req[r]
                            ELSE [req[r] EXCEPT !.acq = @ + 1])} :
       IF a.rel > req[r].rel
         THEN Released(r, a, n, a.op = "create")
         ELSE /\ req' = [req EXCEPT ![r] = a]
              /\ checkedOut' = n
  /\ UNCHANGED <<service, poolMax, pgNonDecimal, dbVars, histVars, started>>

\* ----------------------------------------------------------------- inputs
\* POST /agents bodies (creator service).
CreatorBodies ==
  { [creator_id |-> 1, name |-> "Bot"],
    [creator_id |-> 1, name |-> "Bot", role |-> "vip"],
    [creator_id |-> 3, name |-> "Bot"],
    [name |-> "Bot"] }

\* createAgent(agentData) arguments (instructor service).
InstructorData ==
  { [instructor_id |-> 1, name |-> "Bot"],
    [instructor_id |-> 2, name |-> "Bot"],
    [instructor_id |-> 1, name |-> "Bot", visibility |-> "secret"],
    [instructor_id |-> 3, name |-> "Bot"],
    [name |-> "Bot"] }

\* creator_id as it arrives in a query string; <<>> is a missing parameter,
\* "-1" and the form feed before "1" pass parseInt, the numbers above 2^53
\* pass it and fail in PostgreSQL.
QueryOwners ==
  { <<"1">>, <<"2">>, <<"x">>, <<>>, <<"-", "1">>, <<"\f", "1">>, BigOwners[2],
    BigOwners[3] }

\* PUT /agents/:id bodies without their creator_id key.
CreatorPatches ==
  { <<>>,
    [name |-> "Bot2"],
    [role |-> "vip"],
    [id |-> 9],
    [name |-> "Bot2", id |-> 9],
    [visibility |-> "secret"] }

\* (:id, creator_id) of GET /agents/:id; "not found" is no integer, the
\* big number is out of the column's range, "0x1" is 1 to a server that
\* reads the non-decimal forms.
CreatorTargets ==
  { <<id, q>> : id \in { <<"1">> }, q \in { <<"1">>, <<"2">>, <<>> } }
  \cup { << <<"2">>, <<"1">> >>,
         << NotFoundText, <<"1">> >>,
         << BigOwners[1], <<"1">> >>,
         << <<"0", "x", "1">>, <<"1">> >>,
         << <<"1">>, BigOwners[1] >> }

\* (:id, creator_id) of DELETE /agents/:id; "x" is no integer, "1" between
\* a vertical tab and a form feed and "+1" after a no-break space are read
\* as 1.
CreatorDeletes ==
  { << <<"1">>, <<"1">> >>, << <<"1">>, <<"2">> >>, << <<"x">>, <<"1">> >>,
    << <<"", "1", "\f">>, <<" ", "+", "1">> >> }

\* (:id, body) of PUT /agents/:id; creator_id 0 stands for a missing key.
CreatorPuts ==
  { << <<"1">>, [creator_id |-> 1] @@ patch >> :
      patch \in CreatorPatches \ {<<>>} }
  \cup { << <<"1">>, [creator_id |-> 2] >>,
         << <<"1", " ">>, [creator_id |-> 1, name |-> "Bot2"] >>,
         << <<"1">>, [creator_id |-> 0, name |-> "Bot2"] >> }

\* updateAgent(agentId, instructorId, updates) patches (instructor service).
InstructorPatches ==
  { <<>>,
    [name |-> "Bot2"],
    [instructor_id |-> 2],
    [visibility |-> "secret"] }

\* The agent_id of row n as a caller may write it, in upper case.
UUIDUpper(n) == [UUIDOf(n) EXCEPT ![8] = "A"]

\* (agentId, instructorId) of getAgentById and deleteAgent.
InstructorTargets ==
  { <<id, o>> : id \in { <<"1">>, UUIDOf(1) }, o \in Users }
  \cup { << <<"x">>, 1 >>, << UUIDUpper(1), 1 >> }

\* (agentId, instructorId, updates) of updateAgent.
InstructorUpdates ==
  { << <<"1">>, o, patch >> : o \in Users, patch \in InstructorPatches }
  \cup { << UUIDOf(1), o, [name |-> "Bot2"] >> : o \in Users }
  \cup { << <<"x">>, 1, [name |-> "Bot2"] >> }

\* ------------------------------------------------- routes (creatorRoutes.js)
\* router.post("/agents")
PostAgents(r, body) ==
  /\ service \in Routed
  /\ CanStart(r)
  /\ started' = started + 1
  /\ LET errors == validateAgentInput(body, FALSE) IN
       IF errors # <<>>
         THEN Reject(r, "create", badRequest(MsgValidationFailed, errors))
         ELSE Call(r, "create", <<>>, JsInt(body.creator_id), "", body)
  /\ UNCHANGED <<service, poolMax, pgNonDecimal, dbVars, histVars>>

\* The creator_id checks shared by GET, GET/:id and DELETE/:id.
queryReject(q) ==
  IF q = <<>> THEN badRequest(MsgCreatorQueryRequired, <<>>)
  ELSE IF isNaN(parseInt(q)) THEN badRequest(MsgCreatorNumber, <<>>)
  ELSE NoResp

\* router.get("/agents")
GetAgents(r, q) ==
  /\ service \in Routed
  /\ CanStart(r)
  /\ started' = started + 1
  /\ IF queryReject(q) # NoResp
       THEN Reject(r, "list", queryReject(q))
       ELSE Call(r, "list", <<>>, parseInt(q), "", <<>>)
  /\ UNCHANGED <<service, poolMax, pgNonDecimal, dbVars, histVars>>

\* router.get("/agents/:id")
GetAgent(r, id, q) ==
  /\ service \in Routed
  /\ CanStart(r)
  /\ started' = started + 1
  /\ IF queryReject(q) # NoResp
       THEN Reject(r, "get", queryReject(q))
       ELSE Call(r, "get", id, parseInt(q), "", <<>>)
  /\ UNCHANGED <<service, poolMax, pgNonDecimal, dbVars, histVars>>

\* router.put("/agents/:id")
PutAgent(r, id, body) ==
  /\ service \in Routed
  /\ CanStart(r)
  /\ started' = started + 1
  /\ LET \* const { creator_id, ...updates } = req.body
         updates == [k \in (DOMAIN body) \ {"creator_id"} |-> body[k]]
         creatorIdInt == parseInt(toString(body.creator_id))
         errors == validateAgentInput(updates, TRUE)
     IN IF ~TruthyNum(body, "creator_id")
          THEN Reject(r, "update", badRequest(MsgCreatorBodyRequired, <<>>))
        ELSE IF isNaN(creatorIdInt)
          THEN Reject(r, "update", badRequest(MsgCreatorNumber, <<>>))
        ELSE IF errors # <<>>
          THEN Reject(r, "update", badRequest(MsgValidationFailed, errors))
        ELSE Call(r, "update", id, creatorIdInt, "", updates)
  /\ UNCHANGED <<service, poolMax, pgNonDecimal, dbVars, histVars>>

\* router.delete("/agents/:id")
DeleteAgentRoute(r, id, q) ==
  /\ service \in Routed
  /\ CanStart(r)
  /\ started' = started + 1
  /\ IF queryReject(q) # NoResp
       THEN Reject(r, "delete", queryReject(q))
       ELSE Call(r, "delete", id, parseInt(q), "", <<>>)
  /\ UNCHANGED <<service, poolMax, pgNonDecimal, dbVars, histVars>>

\* ------------------------------ direct calls of the instructor repository
InstructorCall(r, op, agentId, owner, body) ==
  /\ service = "instructor"
  /\ CanStart(r)
  /\ started' = started + 1
  /\ Call(r, op, agentId, JsInt(owner), "", body)
  /\ UNCHANGED <<service, poolMax, pgNonDecimal, dbVars, histVars>>

\* ------------------------------- agent repository: statements and returns
\* What axiosWithRetry.post to the training API comes to: an agent_id, a
\* response without one, or a failure after the retries.
TrainingOutcomes == {"uuid", "noid", "fail"}

\* trainingApiUuid after the try/catch around the registration.
trainingApiUuidOf(outcome) ==
  IF outcome = "uuid" THEN "t-uuid"
  ELSE IF outcome = "noid" THEN UNDEFINED
  ELSE NULL

\* Mutant: a failed registration is rethrown instead of swallowed.
TrainingRethrows(r, outcome) ==
  /\ req[r].pc = "training"
  /\ Quiet
  /\ IF outcome = "fail"
       THEN FinishAs(r, Thrown(<<"t", "i", "m", "e", "o", "u", "t">>),
                     req[r].found)
       ELSE /\ req' = [req EXCEPT ![r] =
                         [@ EXCEPT !.pc = "insert",
                                   !.tuuid = trainingApiUuidOf(outcome)]]
            /\ UNCHANGED checkedOut
  /\ UNCHANGED <<service, poolMax, pgNonDecimal, dbVars, histVars, started>>

\* await axiosWithRetry.post(...) returns or throws (creator variant).
TrainingReturns(r, outcome) ==
  /\ req[r].pc = "training"
  /\ Quiet
  /\ req' = [req EXCEPT ![r] =
               [@ EXCEPT !.pc = "insert",
                         !.tuuid = trainingApiUuidOf(outcome)]]
  /\ UNCHANGED <<service, poolMax, pgNonDecimal, dbVars, histVars, started, checkedOut>>

\* The message createAgent's catch block gives a database error code.
createErrorMessage(svc, code) ==
  IF code = "23503"
    THEN (IF svc = "instructor" THEN MsgInvalidInstructor
          ELSE IF svc = "typed" THEN MsgPgForeignKey
          ELSE MsgInvalidCreator)
  ELSE IF code = "23514" /\ svc = "instructor" THEN MsgVisibilityConstraint
  ELSE IF code = "23514" /\ svc = "typed" THEN MsgInvalidAgentType
  ELSE MsgPgCheck

\* INSERT INTO agents ... RETURNING ...; then return or throw.  The CHECK
\* constraint is tested when the row is formed, the foreign key after it.
ExecInsert(r) ==
  /\ req[r].pc = "insert"
  /\ Quiet
  /\ LET \* A query parameter as the driver sends it: undefined goes as NULL.
         prepareValue(v) == IF v = UNDEFINED THEN NULL ELSE v
         row == insertedRow(service, nextId, req[r].body,
                            prepareValue(req[r].tuuid)) IN
       /\ nextId' = nextval(nextId)
       /\ IF checkViolation(service, row)
            THEN /\ FinishAs(r, Thrown(createErrorMessage(service, "23514")),
                             req[r].found)
                 /\ UNCHANGED <<agents, issuedIds>>
          ELSE IF fkViolation(row[ownerKey(service)])
            THEN /\ FinishAs(r, Thrown(createErrorMessage(service, "23503")),
                             req[r].found)
                 /\ UNCHANGED <<agents, issuedIds>>
          ELSE /\ agents' = agents \cup {row}
               /\ issuedIds' = issuedIds \cup {row.id}
               /\ FinishAs(r, Success(MsgCreated, "object", <<row>>),
                           req[r].found)
  /\ UNCHANGED <<service, poolMax, pgNonDecimal, voices, nextVoiceId, started, deletedIds,
                 voiceHist>>

\* Mutant: the SELECT without its WHERE clause.
getAgentsOfAll(svc, tbl, owner) == newestFirst(tbl)

\* SELECT ... WHERE a.creator_id = $1 ORDER BY a.created_at DESC
getAgentsByCreator(svc, tbl, owner) ==
  newestFirst({row \in tbl : row[ownerKey(svc)] = owner})

\* getAgentsByCreator: the SELECT and what follows it.
ExecList(r) ==
  /\ req[r].pc = "list"
  /\ Quiet
  /\ IF req[r].ownerErr # <<>>
       THEN FinishAs(r, Thrown(req[r].ownerErr), "bad")
       ELSE FinishAs(r, Success(MsgListed, "array",
                             getAgentsByCreator(service, agents,
                                                req[r].owner)),
                     req[r].found)
  /\ UNCHANGED <<service, poolMax, pgNonDecimal, dbVars, histVars, started>>

\* The rows a statement scoped by id and owner touches.
matching(svc, tbl, agentId, owner) ==
  {row \in tbl : whereIdAndOwner(svc, row, agentId, owner)}

\* History: what the table held for this id when the statement ran.
foundAs(svc, tbl, agentId, owner) ==
  LET named == {row \in tbl : namedBy(svc, row, agentId)} IN
    IF BadIdParam(svc, agentId) THEN "bad"
    ELSE IF \E row \in named : row[ownerKey(svc)] = owner THEN "own"
    ELSE IF named # {} THEN "foreign"
    ELSE "none"

\* Mutant: look the row up by id, then compare the owner in the handler.
getAgentByIdThenOwner(svc, tbl, agentId, owner) ==
  IF BadIdParam(svc, agentId) THEN Thrown(pgIntError(agentId))
  ELSE LET named == {row \in tbl : namedBy(svc, row, agentId)} IN
    IF named = {} THEN Thrown(MsgNotFound)
    ELSE IF \A row \in named : row[ownerKey(svc)] # owner
      THEN Thrown(<<"A", "c", "c", "e", "s", "s", " ", "d", "e", "n", "i", "e", "d">>)
    ELSE Success(MsgRetrieved, "object", <<CHOOSE row \in named : TRUE>>)

\* getAgentById: the SELECT and what follows it.
getAgentById(svc, tbl, agentId, owner) ==
  IF BadIdParam(svc, agentId) THEN Thrown(pgIntError(agentId))
  ELSE LET rows == matching(svc, tbl, agentId, owner) IN
    IF rows = {} THEN Thrown(MsgNotFound)
    ELSE Success(MsgRetrieved, "object", <<CHOOSE row \in rows : TRUE>>)

\* The statement's id parameter ($1) is read, its owner parameter is not.
ownerFails(svc, q) == ~BadIdParam(svc, q.agentId) /\ q.ownerErr # <<>>

ExecSelect(r) ==
  /\ req[r].pc = "select"
  /\ Quiet
  /\ IF ownerFails(service, req[r])
       THEN FinishAs(r, Thrown(req[r].ownerErr), "bad")
       ELSE FinishAs(r, getAgentById(service, agents, req[r].agentId,
                                     req[r].owner),
                     foundAs(service, agents, req[r].agentId, req[r].owner))
  /\ UNCHANGED <<service, poolMax, pgNonDecimal, dbVars, histVars, started>>

\* updateAgent, first statement: SELECT id FROM agents WHERE id AND owner.
\* The error it throws, or <<>> when the UPDATE is to be sent.
probeRejects(svc, tbl, agentId, owner, updates) ==
  IF BadIdParam(svc, agentId) THEN pgIntError(agentId)
  ELSE IF matching(svc, tbl, agentId, owner) = {} THEN MsgNotFound
  ELSE IF DOMAIN updateFields(svc, updates) = {} THEN MsgNoValidFields
  ELSE <<>>

ExecProbe(r) ==
  /\ req[r].pc = "probe"
  /\ Quiet
  /\ LET q == req[r]
         rejects == IF ownerFails(service, q) THEN q.ownerErr
                    ELSE probeRejects(service, agents, q.agentId, q.owner,
                                      q.body)
         found == IF ownerFails(service, q) THEN "bad"
                  ELSE foundAs(service, agents, q.agentId, q.owner)
     IN IF rejects # <<>>
          THEN FinishAs(r, Thrown(rejects), found)
          ELSE /\ req' = [req EXCEPT ![r] =
                            [@ EXCEPT !.pc = "update", !.found = found]]
               /\ UNCHANGED checkedOut
  /\ UNCHANGED <<service, poolMax, pgNonDecimal, dbVars, histVars, started>>

\* The message updateAgent's catch block gives a check-constraint error.
updateErrorMessage(svc) ==
  IF svc = "instructor" THEN MsgVisibilityConstraint
  ELSE IF svc = "typed" THEN MsgInvalidAgentType
  ELSE MsgPgCheck

\* updateAgent, second statement: UPDATE agents SET ... WHERE id AND owner
\* RETURNING ...; the table afterwards.
updatedTable(svc, tbl, agentId, owner, updates) ==
  LET rows == matching(svc, tbl, agentId, owner)
      fields == updateFields(svc, updates)
  IN IF \E row \in rows : checkViolation(svc, setFields(row, fields))
       THEN tbl
       ELSE (tbl \ rows) \cup {setFields(row, fields) : row \in rows}

\* Mutant: the UPDATE's row count is checked like the probe's.
updateResultChecked(svc, tbl, agentId, owner, updates) ==
  LET rows == matching(svc, tbl, agentId, owner)
      fields == updateFields(svc, updates)
  IN IF \E row \in rows : checkViolation(svc, setFields(row, fields))
       THEN Thrown(updateErrorMessage(svc))
     ELSE IF rows = {}
       THEN Thrown(MsgNotFound)
     ELSE Success(MsgUpdated, "object",
                  <<setFields(CHOOSE row \in rows : TRUE, fields)>>)

\* What updateAgent returns or throws after the UPDATE.
updateResult(svc, tbl, agentId, owner, updates) ==
  LET rows == matching(svc, tbl, agentId, owner)
      fields == updateFields(svc, updates)
  IN IF \E row \in rows : checkViolation(svc, setFields(row, fields))
       THEN Thrown(updateErrorMessage(svc))
     ELSE IF rows = {}
       THEN Success(MsgUpdated, "undefined", <<>>)
     ELSE Success(MsgUpdated, "object",
                  <<setFields(CHOOSE row \in rows : TRUE, fields)>>)

ExecUpdate(r) ==
  /\ req[r].pc = "update"
  /\ Quiet
  /\ LET q == req[r] IN
       /\ agents' = updatedTable(service, agents, q.agentId, q.owner, q.body)
       /\ FinishAs(r, updateResult(service, agents, q.agentId, q.owner, q.body),
                   req[r].found)
  /\ UNCHANGED <<service, poolMax, pgNonDecimal, nextId, voices, nextVoiceId, histVars, started>>

\* Mutant: the row is reported deleted and kept.
deletedTableKept(svc, tbl, agentId, owner) == tbl

\* DELETE FROM agents WHERE id AND owner RETURNING id: the table afterwards.
deletedTable(svc, tbl, agentId, owner) ==
  IF BadIdParam(svc, agentId) THEN tbl
  ELSE tbl \ matching(svc, tbl, agentId, owner)

\* data: { id } in the creator variant, { id, agent_id } in the instructor one.
deletedData(svc, row) ==
  IF svc = "instructor" THEN [id |-> row.id, agent_id |-> row.agent_id]
  ELSE [id |-> row.id]

\* Mutant: a delete that matches no row reports success all the same.
deleteAgentAlwaysSucceeds(svc, tbl, agentId, owner) ==
  IF BadIdParam(svc, agentId) THEN Thrown(pgIntError(agentId))
  ELSE LET rows == matching(svc, tbl, agentId, owner) IN
    IF rows = {}
      THEN Success(MsgDeleted, "object",
                   <<deletedData(svc, [id |-> PgInt(agentId).val,
                                       agent_id |-> PgUuid(agentId)])>>)
      ELSE Success(MsgDeleted, "object",
                   <<deletedData(svc, CHOOSE row \in rows : TRUE)>>)

\* What deleteAgent returns or throws.
deleteAgent(svc, tbl, agentId, owner) ==
  IF BadIdParam(svc, agentId) THEN Thrown(pgIntError(agentId))
  ELSE LET rows == matching(svc, tbl, agentId, owner) IN
    IF rows = {} THEN Thrown(MsgNotFound)
    ELSE Success(MsgDeleted, "object",
                 <<deletedData(svc, CHOOSE row \in rows : TRUE)>>)

ExecDelete(r) ==
  /\ req[r].pc = "delete"
  /\ Quiet
  /\ LET q == req[r]
         result == deleteAgent(service, agents, q.agentId, q.owner)
     IN IF ownerFails(service, q)
          THEN /\ FinishAs(r, Thrown(q.ownerErr), "bad")
               /\ UNCHANGED <<agents, deletedIds>>
          ELSE /\ agents' = deletedTable(service, agents, q.agentId, q.owner)
               /\ deletedIds' = IF result.success
                                  THEN deletedIds \cup {result.data[1].id}
                                  ELSE deletedIds
               /\ FinishAs(r, result,
                           foundAs(service, agents, q.agentId, q.owner))
  /\ UNCHANGED <<service, poolMax, pgNonDecimal, nextId, voices, nextVoiceId, issuedIds, voiceHist,
                 started>>

\* ----------------------------------------- voice repository (voiceService.js)
VoiceCall(r, op, userId, voiceId) ==
  /\ service = "voice"
  /\ CanStart(r)
  /\ started' = started + 1
  /\ Call(r, op, <<>>, JsInt(userId), voiceId, <<>>)
  /\ UNCHANGED <<service, poolMax, pgNonDecimal, dbVars, histVars>>

\* WHERE user_id = $1 AND voice_id = $2
voiceMatching(tbl, userId, voiceId) ==
  {row \in tbl : row.user_id = userId /\ row.voice_id = voiceId}

\* Mutant: a plain INSERT, without the ON CONFLICT clause or the key.
insertVoiceAlways(tbl, id, userId, voiceId) ==
  {[id |-> id, user_id |-> userId, voice_id |-> voiceId]}

\* INSERT INTO user_voices ... ON CONFLICT (user_id, voice_id) DO NOTHING
\* RETURNING *: the rows it returns.
insertVoice(tbl, id, userId, voiceId) ==
  IF voiceMatching(tbl, userId, voiceId) # {} THEN {}
  ELSE {[id |-> id, user_id |-> userId, voice_id |-> voiceId]}

bump(hist, userId, voiceId, field) ==
  [hist EXCEPT ![<<userId, voiceId>>][field] = @ + 1]

\* cloneBuiltInVoice, first statement.
ExecVoiceInsert(r) ==
  /\ req[r].pc = "vinsert"
  /\ Quiet
  /\ LET q == req[r]
         rows == insertVoice(voices, nextVoiceId, q.owner, q.voiceId)
     IN /\ voices' = voices \cup rows
        /\ nextVoiceId' = nextval(nextVoiceId)
        /\ IF rows = {}
             THEN /\ req' = [req EXCEPT ![r] = [@ EXCEPT !.pc = "vselect"]]
                  /\ UNCHANGED <<checkedOut, voiceHist>>
             ELSE /\ FinishAs(r, Success(MsgVoiceSaved, "object",
                                       <<CHOOSE row \in rows : TRUE>>),
                              req[r].found)
                  /\ voiceHist' = bump(voiceHist, q.owner, q.voiceId, "saved")
  /\ UNCHANGED <<service, poolMax, pgNonDecimal, agents, nextId, issuedIds, deletedIds, started>>

\* cloneBuiltInVoice, second statement: SELECT * ... WHERE user AND voice.
ExecVoiceSelect(r) ==
  /\ req[r].pc = "vselect"
  /\ Quiet
  /\ LET rows == voiceMatching(voices, req[r].owner, req[r].voiceId)
     IN \* data: existingResult.rows[0]
        FinishAs(r, IF rows = {}
                      THEN Success(MsgVoiceAlready, "undefined", <<>>)
                      ELSE Success(MsgVoiceAlready, "object",
                                   <<CHOOSE row \in rows : TRUE>>),
                 req[r].found)
  /\ voiceHist' = bump(voiceHist, req[r].owner, req[r].voiceId, "already")
  /\ UNCHANGED <<service, poolMax, pgNonDecimal, dbVars, issuedIds, deletedIds, started>>

\* SELECT * FROM user_voices WHERE user_id = $1 ORDER BY created_at DESC
getUserVoices(tbl, userId) ==
  newestFirst({row \in tbl : row.user_id = userId})

ExecVoiceList(r) ==
  /\ req[r].pc = "vlist"
  /\ Quiet
  /\ FinishAs(r, Success(MsgVoicesListed, "array",
                       getUserVoices(voices, req[r].owner)),
              req[r].found)
  /\ UNCHANGED <<service, poolMax, pgNonDecimal, dbVars, histVars, started>>

\* What deleteUserVoice returns or throws.
deleteUserVoice(tbl, userId, voiceId) ==
  LET rows == voiceMatching(tbl, userId, voiceId) IN
    IF rows = {} THEN Thrown(MsgVoiceNotFound)
    ELSE Success(MsgVoiceDeleted, "object",
                 <<[id |-> (CHOOSE row \in rows : TRUE).id]>>)

\* DELETE FROM user_voices WHERE user_id = $1 AND voice_id = $2 RETURNING id
ExecVoiceDelete(r) ==
  /\ req[r].pc = "vdelete"
  /\ Quiet
  /\ LET q == req[r]
         rows == voiceMatching(voices, q.owner, q.voiceId)
     IN /\ voices' = voices \ rows
        /\ FinishAs(r, deleteUserVoice(voices, q.owner, q.voiceId),
                    req[r].found)
        /\ voiceHist' = IF rows = {} THEN voiceHist
                        ELSE bump(voiceHist, q.owner, q.voiceId, "deleted")
  /\ UNCHANGED <<service, poolMax, pgNonDecimal, agents, nextId, nextVoiceId, issuedIds, deletedIds,
                 started>>

\* ------------------------------------- debug routes (creatorRoutes.js 10-115)
\* The query strings of GET /debug/user.
DebugQueries ==
  { <<>>,
    [user_id |-> <<"u", "1">>],
    [email |-> <<"u", "9", "@", "x">>] }

\* router.get("/debug/schema"): const client = await pool.connect()
DebugSchema(r) ==
  /\ service = "creator"
  /\ CanStart(r)
  /\ started' = started + 1
  /\ Call(r, "schema", <<>>, JsInt(0), "", <<>>)
  /\ UNCHANGED <<service, poolMax, pgNonDecimal, dbVars, histVars>>

\* router.get("/debug/user"): const client = await pool.connect()
DebugUser(r, query) ==
  /\ service = "creator"
  /\ CanStart(r)
  /\ started' = started + 1
  /\ Call(r, "user", <<>>, JsInt(0), "", query)
  /\ UNCHANGED <<service, poolMax, pgNonDecimal, dbVars, histVars>>

\* The five statements of /debug/schema, in the order they are awaited.
SchemaSteps == <<"columns", "columns2", "count", "count2", "sample">>

\* One statement of /debug/schema returns or fails.  After the last one
\* res.json: the sample is rows[0] of SELECT ... FROM users LIMIT 1, which
\* has no ORDER BY, so any row of users (the table is never empty here, so
\* "|| null" is not taken).  A statement that fails (error.message is the
\* driver's) goes to the catch block, which answers 500 with the message;
\* finally releases the client on both paths.
ExecSchema(r) ==
  /\ \E i \in 1..Len(SchemaSteps), returns \in BOOLEAN :
       /\ req[r].pc = SchemaSteps[i]
       /\ Quiet
       /\ IF ~returns
            THEN FinishAs(r, Thrown(<<"C", "o", "n", "n", "e", "c", "t", "i",
                                     "o", "n", " ", "t", "e", "r", "m", "i",
                                     "n", "a", "t", "e", "d", " ", "u", "n",
                                     "e", "x", "p", "e", "c", "t", "e", "d",
                                     "l", "y">>),
                          req[r].found)
          ELSE IF i = Len(SchemaSteps)
            THEN \* data: { agents: { count }, users: { count, sample } }
                 \E n \in Users :
                   FinishAs(r, Success(<<>>, "object",
                              <<[agents |-> req[r].agentsCount,
                                 users |-> Cardinality(Users),
                                 sample |-> userRow(n)]>>),
                            req[r].found)
            ELSE /\ req' = [req EXCEPT ![r] =
                              [@ EXCEPT !.pc = SchemaSteps[i + 1],
                                        !.agentsCount =
                                           IF SchemaSteps[i] = "count"
                                             THEN Cardinality(agents)
                                             ELSE @]]
                 /\ UNCHANGED checkedOut
  /\ UNCHANGED <<service, poolMax, pgNonDecimal, dbVars, histVars, started>>

\* The SELECT of /debug/user returns; the handler answers and releases.
ExecUserSelect(r) ==
  /\ req[r].pc = "userselect"
  /\ Quiet
  /\ LET query == req[r].body
         \* SELECT ... FROM users WHERE email = $1, or WHERE user_id = $1
         rows == {row \in {userRow(n) : n \in Users} :
                    IF TruthyText(query, "email") THEN row.email = query.email
                    ELSE row.user_id = query.user_id}
         answer ==
           IF rows = {}
             THEN [status |-> 404, success |-> FALSE,
                   message |-> MsgUserNotFound, errors |-> <<>>,
                   kind |-> "absent", data |-> <<>>]
             ELSE [status |-> 200, success |-> TRUE, message |-> <<>>,
                   errors |-> <<>>, kind |-> "object",
                   data |-> <<CHOOSE row \in rows : TRUE>>]
     IN Released(r, [req[r] EXCEPT !.pc = "done", !.rel = @ + 1,
                                   !.resp = answer],
                 checkedOut, FALSE)
  /\ UNCHANGED <<service, poolMax, pgNonDecimal, dbVars, histVars, started>>

\* The response has been sent; the slot takes the next request.
Reset(r) ==
  /\ req[r].pc = "done"
  /\ req' = [req EXCEPT ![r] = IdleReq]
  /\ UNCHANGED <<service, poolMax, pgNonDecimal, dbVars, histVars, started, checkedOut>>

\* ------------------------------------------------------------ specification
Next ==
  \E r \in Reqs :
    \/ \E body \in CreatorBodies : PostAgents(r, body)
    \/ \E q \in QueryOwners : GetAgents(r, q)
    \/ \E t \in CreatorTargets : GetAgent(r, t[1], t[2])
    \/ \E t \in CreatorPuts : PutAgent(r, t[1], t[2])
    \/ \E t \in CreatorDeletes : DeleteAgentRoute(r, t[1], t[2])
    \/ \E data \in InstructorData :
         InstructorCall(r, "create", <<>>, 0, data)
    \/ \E o \in Users : InstructorCall(r, "list", <<>>, o, <<>>)
    \/ \E t \in InstructorTargets : InstructorCall(r, "get", t[1], t[2], <<>>)
    \/ \E t \in InstructorUpdates :
         InstructorCall(r, "update", t[1], t[2], t[3])
    \/ \E t \in InstructorTargets :
         InstructorCall(r, "delete", t[1], t[2], <<>>)
    \/ \E p \in VoicePairs : VoiceCall(r, "clone", p[1], p[2])
    \/ \E p \in VoicePairs : VoiceCall(r, "voices", p[1], "")
    \/ \E p \in VoicePairs : VoiceCall(r, "unsave", p[1], p[2])
    \/ DebugSchema(r)
    \/ \E query \in DebugQueries : DebugUser(r, query)
    \/ Connect(r)
    \/ \E outcome \in TrainingOutcomes : TrainingReturns(r, outcome)
    \/ ExecInsert(r)
    \/ ExecList(r)
    \/ ExecSelect(r)
    \/ ExecProbe(r)
    \/ ExecUpdate(r)
    \/ ExecDelete(r)
    \/ ExecVoiceInsert(r)
    \/ ExecVoiceSelect(r)
    \/ ExecVoiceList(r)
    \/ ExecVoiceDelete(r)
    \/ ExecSchema(r)
    \/ ExecUserSelect(r)
    \/ Answer(r)
    \/ Reset(r)

Spec == Init /\ [][Next]_vars

\* ------------------------------------------------------------------ claims
\* The request whose statement runs in this step, if it runs as `pc`.
Steps(r, pc) == req[r].pc = pc /\ req'[r].pc # pc

\* The function of request r has returned or thrown (ret holds the outcome;
\* through a route the answer may still be on its way).
Returned(r) == req[r].pc \in {"answer", "done"}

\* The route of request r answers in this step: the function's result with
\* the given status, and nothing is written.
AnswersWith(r, status) ==
  /\ req'[r].pc = "done"
  /\ req'[r].resp = [req[r].ret EXCEPT !.status = status]
  /\ agents' = agents

\* C1: a row changes or disappears only in the UPDATE or DELETE step of a
\* request whose owner id equals the row's owner column, and a row that
\* stays in the table (same id) keeps its owner column.
C1_OwnerScopedWrites ==
  [][\A row \in agents :
       /\ row \notin agents' =>
            \E r \in Reqs :
              /\ Steps(r, "update") \/ Steps(r, "delete")
              /\ req[r].owner = row[ownerKey(service)]
       /\ \A row2 \in agents' :
            row2.id = row.id =>
              row2[ownerKey(service)] = row[ownerKey(service)]]_vars

\* C1 witness: an owner's update went through and the row is still theirs,
\* while another user's update of the same agent was answered not-found.
C1_Witness ==
  /\ \E r \in Reqs :
       /\ req[r].pc = "done" /\ req[r].op = "update" /\ req[r].resp.success
       /\ req[r].resp.kind = "object"
       /\ req[r].resp.data[1][ownerKey(service)] = req[r].owner
       /\ req[r].resp.data[1] \in agents
  /\ \E r \in Reqs :
       /\ req[r].pc = "done" /\ req[r].op = "update"
       /\ req[r].found = "foreign"

\* The id strings that name a row: its serial id and, where the variant has
\* one, its agent_id.
IdsOf(svc, row) ==
  {toString(row.id)} \cup (IF svc = "instructor" THEN {row.agent_id} ELSE {})

PatchesOf(svc) ==
  IF svc = "instructor" THEN InstructorPatches ELSE CreatorPatches

\* The statements scoped by id and owner, run on table tbl with and without
\* row for an owner who does not own it: the two outcomes are the same and
\* nothing is written.
SameAsMissing(svc, tbl, row) ==
  \A o \in Users \ {row[ownerKey(svc)]} :
    \A id \in IdsOf(svc, row) :
      LET without == tbl \ {row} IN
        /\ getAgentById(svc, tbl, id, o) = getAgentById(svc, without, id, o)
        /\ \A patch \in PatchesOf(svc) :
             probeRejects(svc, tbl, id, o, patch)
               = probeRejects(svc, without, id, o, patch)
        /\ deleteAgent(svc, tbl, id, o) = deleteAgent(svc, without, id, o)
        /\ deletedTable(svc, tbl, id, o) = tbl

\* C2: getById, update and delete of an agent that exists under another
\* owner end exactly as they do when the agent does not exist: the same
\* not-found error (404 through the routes) for every patch, and no write.
\* Every answer given is checked, and every table the service reaches is
\* compared with the table that lacks the foreign row.
C2_ForeignLikeMissing ==
  [][/\ \A r \in Reqs :
          /\ (/\ req'[r].pc \in {"answer", "done"}
              /\ req'[r].op \in {"get", "update", "delete"}
              /\ req'[r].found \in {"foreign", "none"})
             => /\ req'[r].ret = Thrown(MsgNotFound)
                /\ req'[r].pc = "done" =>
                     req'[r].resp
                       = respond(service, req'[r].op, Thrown(MsgNotFound))
                /\ ~Returned(r) => agents' = agents
          /\ req'[r].pc = "update" => req'[r].found = "own"
     /\ agents' # agents =>
          \A row \in agents' : SameAsMissing(service, agents', row)]_vars

\* C2 witness: an update with no allow-listed field, of an agent another
\* user owns, has been answered, and so has a get of an id nobody has.
C2_Witness ==
  /\ \E r \in Reqs :
       /\ req[r].pc = "done" /\ req[r].op = "update"
       /\ req[r].found = "foreign"
       /\ DOMAIN updateFields(service, req[r].body) = {}
  /\ \E r \in Reqs :
       /\ req[r].pc = "done" /\ req[r].op = "get" /\ req[r].found = "none"

Holding(r) == req[r].pc \notin {"idle", "connect", "answer", "done"}

\* C3: every repository call (and every debug handler) holds exactly one
\* connection from the moment its pool.connect() resolves to its return or
\* throw and has released it exactly once afterwards; a request that waits
\* for the pool or that the route rejected before the call holds none; with
\* no call in progress nothing is checked out.
C3_PoolBalanced ==
  /\ checkedOut = Cardinality({r \in Reqs : Holding(r)})
  /\ \A r \in Reqs :
       /\ Holding(r) => req[r].acq = 1 /\ req[r].rel = 0
       /\ req[r].pc = "connect" => req[r].acq = 0 /\ req[r].rel = 0
       /\ req[r].pc = "answer" => req[r].acq = 1 /\ req[r].rel = 1
       /\ req[r].pc = "done" =>
            /\ req[r].rel = req[r].acq
            /\ req[r].acq = IF /\ req[r].resp.status = 400
                               /\ req[r].op \notin DebugOps
                             THEN 0 ELSE 1
  /\ (\A r \in Reqs : ~Holding(r)) => checkedOut = 0

\* C3 witness: one call has thrown after its statement, one has thrown
\* before it (createAgent's own check), none is in progress.
C3_Witness ==
  /\ \A r \in Reqs : req[r].pc = "done" /\ ~req[r].resp.success
  /\ \E r \in Reqs : req[r].op = "create" /\ req[r].acq = 1
  /\ \E r \in Reqs : req[r].op = "delete" /\ req[r].acq = 1
  /\ checkedOut = 0

\* C4: while no delete of a (user, voice) pair has succeeded, every
\* cloneBuiltInVoice of the pair succeeds, the table holds at most one row
\* for it and exactly one once any call has returned, one call at most
\* answered "Voice saved successfully" and, once any call has returned,
\* exactly one did; all the others answered "Voice already saved for this
\* user".
C4_CloneIdempotent ==
  /\ \A r \in Reqs :
       (req[r].pc = "done" /\ req[r].op = "clone") =>
         /\ req[r].resp.success
         /\ req[r].resp.message \in {MsgVoiceSaved, MsgVoiceAlready}
  /\ \A p \in VoicePairs :
       voiceHist[p].deleted = 0 =>
         LET rows == voiceMatching(voices, p[1], p[2])
             h == voiceHist[p]
         IN /\ Cardinality(rows) <= 1
            /\ h.saved <= 1
            /\ h.saved + h.already >= 1 =>
                 h.saved = 1 /\ Cardinality(rows) = 1

\* C4 witness: two calls for one pair have both returned, one with each
\* message, and a third call for the pair has returned as well.
C4_Witness ==
  \E p \in VoicePairs :
    /\ voiceHist[p].deleted = 0
    /\ voiceHist[p].saved = 1
    /\ voiceHist[p].already = 2
    /\ \E r1, r2 \in Reqs :
         /\ req[r1].pc = "done" /\ req[r1].op = "clone"
         /\ req[r2].pc = "done" /\ req[r2].op = "clone"
         /\ <<req[r1].owner, req[r1].voiceId>> = p
         /\ <<req[r2].owner, req[r2].voiceId>> = p
         /\ req[r1].resp.message = MsgVoiceAlready
         /\ req[r2].resp.message = MsgVoiceAlready

\* C5: every cloneBuiltInVoice that returns success returns as data a row
\* of the requested (user, voice) pair.  (The code does not: the read after
\* a conflict can find the row already deleted and return data undefined.)
C5_CloneReturnsRow ==
  \A r \in Reqs :
    (req[r].pc = "done" /\ req[r].op = "clone" /\ req[r].resp.success) =>
      /\ req[r].resp.kind = "object"
      /\ req[r].resp.data[1].user_id = req[r].owner
      /\ req[r].resp.data[1].voice_id = req[r].voiceId

\* The keys of the test patches that no allow-list holds.
KeyColumns == {"id", "creator_id", "instructor_id"}

\* C6: updateAgent by the owner of an existing agent with a patch that has
\* no allow-listed key throws "No valid fields to update" straight after the
\* ownership probe and leaves the agents table as it was; the UPDATE is
\* never sent.
C6_NoValidFieldsNoWrite ==
  [][\A r \in Reqs :
       (/\ Steps(r, "probe")
        /\ foundAs(service, agents, req[r].agentId, req[r].owner) = "own"
        /\ DOMAIN req[r].body \subseteq KeyColumns)
       => /\ req'[r].pc \in {"answer", "done"}
          /\ ~req'[r].ret.success
          /\ req'[r].ret.message = MsgNoValidFields
          /\ agents' = agents]_vars

\* C6 witness: an owner's update with only an id or owner key was answered
\* "No valid fields to update".
C6_Witness ==
  \E r \in Reqs :
    /\ req[r].pc = "done" /\ req[r].op = "update" /\ req[r].found = "own"
    /\ DOMAIN req[r].body # {}
    /\ DOMAIN req[r].body \subseteq KeyColumns
    /\ req[r].resp.message = MsgNoValidFields

\* The messages of validation failures.
ValidationMessages ==
  {MsgValidationFailed, MsgCreatorRequired, MsgInvalidRole, MsgNoValidFields,
   MsgCreatorQueryRequired, MsgCreatorBodyRequired, MsgCreatorNumber}

\* C7: every validation failure reaches the HTTP caller as status 400,
\* whether the route or the repository detects it.  (The code does not: what
\* the repository throws goes through the route's catch, which answers 500.)
C7_ValidationIs400 ==
  \A r \in Reqs :
    (/\ service = "creator"
     /\ req[r].pc = "done"
     /\ req[r].resp.message \in ValidationMessages)
    => req[r].resp.status = 400

\* C8: a create that succeeds adds exactly one row and returns it; the
\* row's owner is the owner supplied, and its id (and agent_id) is that of no
\* row in the table and of no row any earlier or concurrent create returned.
C8_CreateFreshRow ==
  [][\A r \in Reqs :
       /\ (Steps(r, "insert") /\ req'[r].ret.success) =>
         LET row == req'[r].ret.data[1] IN
           /\ req'[r].ret.kind = "object"
           /\ row[ownerKey(service)] = req[r].body[ownerKey(service)]
           /\ row.name = req[r].body.name
           /\ \A a \in agents : a.id # row.id
           /\ row.id \notin issuedIds
           /\ service = "instructor" =>
                \A a \in agents : a.agent_id # row.agent_id
           /\ agents' = agents \cup {row}
           /\ Cardinality(agents') = Cardinality(agents) + 1
       /\ (/\ Steps(r, "answer") /\ service = "creator"
           /\ req[r].op = "create" /\ req[r].ret.success)
          => AnswersWith(r, 201)]_vars

\* C8 witness: two creates that were in progress together have both
\* returned their rows, with different ids, after an earlier create.
C8_Witness ==
  /\ \A r \in Reqs :
       /\ req[r].pc = "done" /\ req[r].op = "create" /\ req[r].resp.success
       /\ req[r].resp.data[1] \in agents
  /\ \E r1, r2 \in Reqs : req[r1].resp.data[1].id # req[r2].resp.data[1].id
  /\ Cardinality(issuedIds) = 3

\* The rows an id and an owner name together, read off the columns.
OwnRows(r) ==
  {row \in agents : /\ namedBy(service, row, req[r].agentId)
                    /\ row[ownerKey(service)] = req[r].owner}

\* C9: deleteAgent, given an id and an owner the columns can hold, throws
\* 'Agent not found or access denied' and changes nothing when no row
\* matches id and owner; otherwise it removes exactly that row and returns
\* its id.  A get, update or delete (by such an owner) of an id whose delete
\* has succeeded ends in that not-found error, 404 through the routes, and
\* no later create brings the id back.
C9_DeleteThenNotFound ==
  [][/\ \A r \in Reqs :
          Steps(r, "delete") =>
            IF OwnRows(r) = {}
              THEN /\ agents' = agents
                   /\ ~req'[r].ret.success
                   /\ (/\ ~BadIdParam(service, req[r].agentId)
                       /\ req[r].ownerErr = <<>>) =>
                        req'[r].ret.message = MsgNotFound
              ELSE /\ Cardinality(OwnRows(r)) = 1
                   /\ agents' = agents \ OwnRows(r)
                   /\ req'[r].ret.success
                   /\ \A row \in OwnRows(r) :
                        req'[r].ret.data[1].id = row.id
     /\ \A r \in Reqs :
          (/\ req'[r].pc \in {"answer", "done"}
           /\ req'[r].afterDel
           /\ req'[r].ownerErr = <<>>
           /\ req'[r].op \in {"get", "update", "delete"})
          => /\ req'[r].ret = Thrown(MsgNotFound)
             /\ req'[r].pc = "done" =>
                  req'[r].resp
                    = respond(service, req'[r].op, Thrown(MsgNotFound))
     /\ \A row \in agents' : row.id \notin deletedIds']_vars

\* C9 witness: create, then delete, then get of the same id: the delete
\* succeeded and the get was answered not found.
C9_Witness ==
  \E r \in Reqs :
    /\ req[r].pc = "done" /\ req[r].op = "get" /\ req[r].afterDel
    /\ req[r].resp.message = MsgNotFound
    /\ service = "creator" => req[r].resp.status = 404
    /\ deletedIds # {}

\* The elements of a list.
Range(seq) == {seq[i] : i \in DOMAIN seq}

\* C10: getAgentsByCreator, for an owner id the column can hold, returns
\* success with exactly the agents whose owner column is the owner asked
\* for, and getUserVoices exactly the user's voices, each once; with no
\* such row the list is empty and the call still succeeds.
C10_ListExactlyOwned ==
  [][\A r \in Reqs :
       /\ (Steps(r, "list") /\ req[r].ownerErr = <<>>) =>
            LET own == {row \in agents :
                          row[ownerKey(service)] = req[r].owner}
            IN /\ req'[r].ret.success
               /\ req'[r].ret.kind = "array"
               /\ Range(req'[r].ret.data) = own
               /\ Len(req'[r].ret.data) = Cardinality(own)
       /\ (/\ Steps(r, "answer") /\ service = "creator"
           /\ req[r].op = "list" /\ req[r].ownerErr = <<>>)
          => AnswersWith(r, 200)
       /\ Steps(r, "vlist") =>
            LET own == {row \in voices : row.user_id = req[r].owner}
            IN /\ req'[r].ret.success
               /\ req'[r].ret.kind = "array"
               /\ Range(req'[r].ret.data) = own
               /\ Len(req'[r].ret.data) = Cardinality(own)]_vars

\* C10 witness: a list returned the owner's one agent, and a list for an
\* owner with no rows returned empty while the table held that agent.
C10_Witness ==
  /\ \E r \in Reqs :
       /\ req[r].pc = "done" /\ req[r].op = "list" /\ req[r].resp.success
       /\ Len(req[r].resp.data) = 1
  /\ \E r \in Reqs :
       /\ req[r].pc = "done" /\ req[r].op = "list" /\ req[r].resp.success
       /\ req[r].resp.data = <<>>
       /\ \E row \in agents : row[ownerKey(service)] # req[r].owner

\* C11: whatever the training-API registration does (an agent id, a
\* response without one, a failure), createAgent goes on to its INSERT; when
\* the registration failed or gave no id and the payload names an existing
\* user, the INSERT adds the row with training_api_uuid null and create
\* returns it with success (201).
C11_TrainingFailureSwallowed ==
  [][\A r \in Reqs :
       /\ Steps(r, "training") =>
            /\ req'[r].pc = "insert"
            /\ agents' = agents
       /\ (/\ Steps(r, "insert")
           /\ service = "creator"
           /\ req[r].tuuid \in {NULL, UNDEFINED}
           /\ req[r].body.creator_id \in Users)
          => /\ req'[r].ret.success
             /\ req'[r].ret.data[1].training_api_uuid = NULL
             /\ req'[r].ret.data[1] \notin agents
             /\ agents' = agents \cup {req'[r].ret.data[1]}
       /\ (/\ Steps(r, "answer")
           /\ service = "creator"
           /\ req[r].op = "create" /\ req[r].ret.success
           /\ req[r].tuuid \in {NULL, UNDEFINED})
          => AnswersWith(r, 201)]_vars

\* C11 witness: one create whose registration failed and one whose
\* registration returned no id have both returned their row, uuid null.
C11_Witness ==
  \E r1, r2 \in Reqs :
    /\ req[r1].pc = "done" /\ req[r1].op = "create" /\ req[r1].tuuid = NULL
    /\ req[r2].pc = "done" /\ req[r2].op = "create"
    /\ req[r2].tuuid = UNDEFINED
    /\ req[r1].resp.success /\ req[r2].resp.success
    /\ req[r1].resp.data[1].training_api_uuid = NULL
    /\ req[r2].resp.data[1].training_api_uuid = NULL
    /\ {req[r1].resp.data[1], req[r2].resp.data[1]} \subseteq agents

\* ------------------------------------------------ validateAgentInput alone
\* Payload fields as they may arrive: absent (<<>>), falsy, valid, invalid.
FieldOpts ==
  [creator_id |-> << <<>>, [creator_id |-> 0], [creator_id |-> 1] >>,
   name |-> << <<>>, [name |-> ""], [name |-> "Bot"] >>,
   visibility |->
     << <<>>, [visibility |-> ""], [visibility |-> "public"],
        [visibility |-> "secret"] >>,
   temperature |->
     << <<>>, [temperature |-> Num(0)], [temperature |-> Num(7)],
        [temperature |-> Num(20)], [temperature |-> Num(21)],
        [temperature |-> Num(-1)], [temperature |-> Str("7")] >>,
   model_type |->
     << <<>>, [model_type |-> Str("")], [model_type |-> Str("gpt-4")],
        [model_type |-> Num(5)], [model_type |-> Num(0)] >>]

\* validateAgentInput(data, isUpdate) is called and returns its errors; the
\* function is synchronous, so one call runs at a time.  The slot keeps the
\* payload and the errors returned.
ValidateInput(r, data, isUpdate) ==
  /\ \A r2 \in Reqs : req[r2].pc = "idle"
  /\ r = 1
  /\ req' = [req EXCEPT ![r] =
               [IdleReq EXCEPT
                  !.pc = "done",
                  !.op = IF isUpdate THEN "update" ELSE "create",
                  !.body = data,
                  !.resp = [NoResp EXCEPT
                              !.errors = validateAgentInput(data, isUpdate)]]]
  /\ UNCHANGED <<service, poolMax, pgNonDecimal, dbVars, histVars, started, checkedOut>>

InitValidation == Init /\ service = "creator"

NextValidation ==
  \E r \in Reqs :
    \/ \E c \in DOMAIN FieldOpts.creator_id, n \in DOMAIN FieldOpts.name,
          v \in DOMAIN FieldOpts.visibility,
          t \in DOMAIN FieldOpts.temperature,
          m \in DOMAIN FieldOpts.model_type, isUpdate \in BOOLEAN :
         LET opt == [creator_id |-> FieldOpts.creator_id[c],
                     name |-> FieldOpts.name[n],
                     visibility |-> FieldOpts.visibility[v],
                     temperature |-> FieldOpts.temperature[t],
                     model_type |-> FieldOpts.model_type[m]]
         IN ValidateInput(r, [k \in {f \in DOMAIN opt : DOMAIN opt[f] # {}}
                                |-> opt[k][k]],
                          isUpdate)
    \/ Reset(r)

SpecValidation == InitValidation /\ [][NextValidation]_vars

\* What the payload itself shows, read off its keys.
Missing(data, k) == k \notin DOMAIN data
NoOwner(data) == Missing(data, "creator_id") \/ data.creator_id = 0
NoName(data) == Missing(data, "name") \/ data.name = ""
BadVisibility(data) ==
  ~Missing(data, "visibility") /\ data.visibility \notin validVisibility
BadTemperature(data) ==
  /\ ~Missing(data, "temperature")
  /\ ~(/\ data.temperature.type = "number"
       /\ data.temperature.val \in 0..20)
BadModelType(data) ==
  /\ ~Missing(data, "model_type")
  /\ data.model_type.type # "string"
  /\ data.model_type.val # 0
Reported(r, msg) ==
  \E i \in DOMAIN req[r].resp.errors : req[r].resp.errors[i] = msg

\* The parts of the statement that the function meets as stated.
ValidationReports(r) ==
  LET data == req[r].body
      create == req[r].op = "create"
  IN /\ create /\ NoOwner(data) <=> Reported(r, "creator_id is required")
     /\ create /\ NoName(data) <=> Reported(r, "name is required")
     /\ BadTemperature(data)
          <=> Reported(r, "temperature must be a number between 0 and 2")

\* C12 as stated: violations are reported for each missing mandatory key
\* (creation mode only; a key without a value, 0 or "", read as missing), for
\* a visibility that is present and outside the set, and for a temperature
\* that is present and no number in [0, 2]; the list is empty exactly when
\* there is no such violation.
C12_AsStated ==
  \A r \in Reqs :
    req[r].pc = "done" =>
      LET data == req[r].body
          create == req[r].op = "create"
      IN /\ ValidationReports(r)
         /\ BadVisibility(data)
              => Reported(r, "visibility must be one of: private, campus, public")
         /\ req[r].resp.errors = <<>>
              <=> ~ \/ create /\ NoOwner(data)
                    \/ create /\ NoName(data)
                    \/ BadVisibility(data)
                    \/ BadTemperature(data)

\* C12 amended: as stated, except that an empty visibility is not checked
\* and a model_type that is truthy and no string is a violation too.
C12_Validation ==
  \A r \in Reqs :
    req[r].pc = "done" =>
      LET data == req[r].body
          create == req[r].op = "create"
      IN /\ ValidationReports(r)
         /\ (BadVisibility(data) /\ data.visibility # "")
              <=> Reported(r, "visibility must be one of: private, campus, public")
         /\ BadModelType(data) <=> Reported(r, "model_type must be a string")
         /\ req[r].resp.errors = <<>>
              <=> ~ \/ create /\ NoOwner(data)
                    \/ create /\ NoName(data)
                    \/ BadVisibility(data) /\ data.visibility # ""
                    \/ BadTemperature(data)
                    \/ BadModelType(data)

\* C12 witness: an update payload without the mandatory keys whose only
\* violation is a numeric model_type.
C12_Witness ==
  \E r \in Reqs :
    /\ req[r].pc = "done" /\ req[r].op = "update"
    /\ Missing(req[r].body, "creator_id") /\ Missing(req[r].body, "name")
    /\ req[r].resp.errors = <<"model_type must be a string">>

\* C13: every updateAgent that returns success returns the updated record:
\* the row named by the requested id, of the requested owner, whose
\* allow-listed columns hold the patched values.  (The code does not: when
\* the row is deleted between the probe and the UPDATE, it returns success
\* with data undefined.)
C13_UpdateReturnsRecord ==
  \A r \in Reqs :
    (/\ req[r].pc = "done" /\ req[r].op = "update"
     /\ req[r].resp.success)
    => /\ req[r].resp.kind = "object"
       /\ namedBy(service, req[r].resp.data[1], req[r].agentId)
       /\ req[r].resp.data[1][ownerKey(service)] = req[r].owner
       /\ \A k \in DOMAIN updateFields(service, req[r].body) :
            k \in DOMAIN req[r].resp.data[1]
              => req[r].resp.data[1][k] = req[r].body[k]

\* C14: the ownership probe and the UPDATE of updateAgent are separate
\* steps.  When the row the probe found is gone by the time the UPDATE runs,
\* the UPDATE writes nothing and updateAgent still reports success ("Agent
\* updated successfully", data undefined, 200 through the routes), not the
\* not-found error; and no UPDATE touches a row of another owner.
C14_ProbeUpdateRace ==
  [][/\ \A r \in Reqs :
       Steps(r, "update") =>
         /\ req[r].found = "own"
         /\ \A row \in agents :
              row[ownerKey(service)] # req[r].owner => row \in agents'
         /\ OwnRows(r) = {} =>
              /\ agents' = agents
              /\ req'[r].pc \in {"answer", "done"}
              /\ req'[r].ret.success
              /\ req'[r].ret.message = MsgUpdated
              /\ req'[r].ret.kind = "undefined"
              /\ req'[r].ret.data = <<>>
     /\ \A r \in Reqs :
          (/\ Steps(r, "answer") /\ service = "creator"
           /\ req[r].op = "update" /\ req[r].ret.kind = "undefined")
          => AnswersWith(r, 200)]_vars

\* C14 witness: an update whose probe found the owner's row has reported
\* success without a record, the row having been deleted in between.
C14_Witness ==
  \E r \in Reqs :
    /\ req[r].pc = "done" /\ req[r].op = "update" /\ req[r].found = "own"
    /\ req[r].resp.success /\ req[r].resp.kind = "undefined"
    /\ deletedIds # {}
    /\ \E r2 \in Reqs :
         /\ req[r2].pc = "done" /\ req[r2].op = "delete"
         /\ req[r2].resp.success
         /\ req[r2].agentId = req[r].agentId

\* The columns of the modelled rows that an update may set.
MutableColumns == {"name", "role", "visibility"}

\* C15: an UPDATE that finds the row changes, in that row, exactly the
\* columns that are keys of the patch and allow-listed, to the patched
\* values; other keys of the patch are dropped without error, every other
\* column (id, agent_id, owner, training_api_uuid) keeps its value, and every
\* other row stays as it was.
C15_UpdateFrame ==
  [][\A r \in Reqs :
       (Steps(r, "update") /\ req'[r].ret.success /\ OwnRows(r) # {}) =>
         \A row \in OwnRows(r) :
           LET new == req'[r].ret.data[1] IN
             /\ DOMAIN new = DOMAIN row
             /\ \A c \in DOMAIN row :
                  new[c] = IF c \in MutableColumns /\ c \in DOMAIN req[r].body
                             THEN req[r].body[c] ELSE row[c]
             /\ agents' = (agents \ {row}) \cup {new}]_vars

\* C15 witness: a patch of an allowed and a disallowed key was applied to
\* one row (name set, id kept) while the table held a second row.
C15_Witness ==
  \E r \in Reqs :
    /\ req[r].pc = "done" /\ req[r].op = "update" /\ req[r].resp.success
    /\ req[r].resp.kind = "object"
    /\ DOMAIN req[r].body = {"name", "id"}
    /\ req[r].resp.data[1].name = req[r].body.name
    /\ req[r].resp.data[1].id # req[r].body.id
    /\ req[r].resp.data[1] \in agents
    /\ Cardinality(agents) = 2

\* C16: for a request that reached the repository, the route answers 201
\* (POST) or 200 (elsewhere) on success; on an error GET-by-id, PUT and
\* DELETE answer 404 exactly when the message contains "not found" and 500
\* otherwise, and POST and GET /agents answer 500 whatever the message; the
\* body carries success false and the error's message.
C16_RouteStatus ==
  \A r \in Reqs :
    (/\ service \in Routed /\ req[r].pc = "done" /\ req[r].acq = 1
     /\ req[r].op \notin DebugOps) =>
      IF req[r].resp.success
        THEN req[r].resp.status = IF req[r].op = "create" THEN 201 ELSE 200
        ELSE /\ req[r].resp.status \in {404, 500}
             /\ req[r].resp.status = 404
                  <=> /\ req[r].op \in {"get", "update", "delete"}
                      /\ includesNotFound(req[r].resp.message)
             /\ req[r].resp.message # <<>>

\* C16 witness: a GET by id answered 404 for a database error whose message
\* quotes the id "not found", and a PUT answered 500, both for errors the
\* repository threw.
C16_Witness ==
  \E r1, r2 \in Reqs :
    /\ req[r1].pc = "done" /\ req[r1].op = "get" /\ req[r1].acq = 1
    /\ req[r1].resp.status = 404
    /\ req[r1].resp.message = pgSyntaxMessage(NotFoundText)
    /\ req[r2].pc = "done" /\ req[r2].op = "update" /\ req[r2].acq = 1
    /\ req[r2].resp.status = 500

\* ------------------------- typed agent repository (src/unnamed/part_000)
\* POST /agents bodies (typed variant): the route's validation wants
\* creator_id and name, the repository stores neither name nor role.
TypedBodies ==
  { [creator_id |-> 1, name |-> "Bot", agent_type |-> "instructor"],
    [creator_id |-> 2, name |-> "Bot", agent_type |-> "it_support",
     region |-> "Jordan"],
    [creator_id |-> 3, name |-> "Bot", agent_type |-> "instructor"],
    [creator_id |-> 1, name |-> "Bot", agent_type |-> "chef"],
    [creator_id |-> 3, name |-> "Bot", agent_type |-> "chef"],
    [creator_id |-> 1, agent_type |-> "instructor"] }

\* (:id, creator_id) of GET and DELETE /agents/:id (typed variant).
TypedTargets ==
  { << <<"1">>, <<"1">> >>, << <<"1">>, <<"2">> >>, << <<"x">>, <<"1">> >> }

\* (:id, body) of PUT /agents/:id (typed variant).
TypedPuts ==
  { << <<"1">>, [creator_id |-> 1] @@ patch >> :
      patch \in { [agent_type |-> "it_support"], [agent_type |-> "chef"],
                  [region |-> "Jordan"], [name |-> "Bot2"] } }
  \cup { << <<"1">>, [creator_id |-> 2, region |-> "Jordan"] >> }

InitTyped ==
  /\ service = "typed"
  /\ agents = {}
  /\ nextId = 1
  /\ voices = {}
  /\ nextVoiceId = 1
  /\ checkedOut = 0
  /\ poolMax = PoolSize
  /\ pgNonDecimal \in BOOLEAN
  /\ req = [r \in Reqs |-> IdleReq]
  /\ started = 0
  /\ issuedIds = {}
  /\ deletedIds = {}
  /\ voiceHist = [p \in VoicePairs |-> [saved |-> 0, already |-> 0, deleted |-> 0]]

NextTyped ==
  \E r \in Reqs :
    \/ \E body \in TypedBodies : PostAgents(r, body)
    \/ \E q \in {<<"1">>, <<"2">>, <<>>} : GetAgents(r, q)
    \/ \E t \in TypedTargets : GetAgent(r, t[1], t[2])
    \/ \E t \in TypedPuts : PutAgent(r, t[1], t[2])
    \/ \E t \in TypedTargets : DeleteAgentRoute(r, t[1], t[2])
    \/ Connect(r)
    \/ ExecInsert(r)
    \/ ExecList(r)
    \/ ExecSelect(r)
    \/ ExecProbe(r)
    \/ ExecUpdate(r)
    \/ ExecDelete(r)
    \/ Answer(r)
    \/ Reset(r)

SpecTyped == InitTyped /\ [][NextTyped]_vars

\* The enumerated column of a create payload holds a value outside its set.
EnumRejected(svc, data) ==
  checkViolation(svc, insertedRow(svc, 0, data, NULL))

\* The messages that name the admitted values of an enumerated column.
EnumMessages ==
  {MsgVisibilityConstraint, MsgInvalidVisibility, MsgInvalidRole,
   MsgInvalidAgentType}

\* C17: a create whose INSERT meets an owner id of no user fails with
\* "Invalid instructor_id/creator_id - user does not exist", and one whose
\* INSERT meets a check-constraint rejection fails with an enum message; in
\* both cases the agents table is left as it was.
C17_CreateErrorsTranslated ==
  [][\A r \in Reqs :
       Steps(r, "insert") =>
         /\ (/\ fkViolation(req[r].body[ownerKey(service)])
             /\ ~EnumRejected(service, req[r].body))
              => /\ ~req'[r].ret.success
                 /\ req'[r].ret.message =
                      IF service = "instructor" THEN MsgInvalidInstructor
                      ELSE MsgInvalidCreator
                 /\ agents' = agents
         /\ EnumRejected(service, req[r].body)
              => /\ ~req'[r].ret.success
                 /\ req'[r].ret.message \in EnumMessages
                 /\ agents' = agents]_vars

\* The 8-4-4-4-12 hexadecimal shape, in either case.
UuidShaped(s) ==
  /\ Len(s) = 36
  /\ \A i \in 1..36 :
       \/ i \in {9, 14, 19, 24} /\ s[i] = "-"
       \/ i \notin {9, 14, 19, 24} /\ ToLower(s[i]) \in HexLower

\* The rows an id and an owner name, through the one column the id's shape
\* selects: agent_id for a UUID-shaped id, the surrogate id for any other.
Hit(r) ==
  IF UuidShaped(req[r].agentId)
    THEN {row \in agents : /\ row.agent_id = PgUuid(req[r].agentId)
                           /\ row.instructor_id = req[r].owner}
    ELSE {row \in agents : /\ PgInt(req[r].agentId).code = "ok"
                           /\ row.id = PgInt(req[r].agentId).val
                           /\ row.instructor_id = req[r].owner}

\* C18: in the instructor variant getAgentById, updateAgent and deleteAgent
\* look the row up through the column the id's shape selects (agent_id for a
\* UUID-shaped id in either case, id otherwise) and through the owner:
\* getAgentById returns a row exactly when such a row exists, and that row;
\* the probe of an update passes only when such a row exists; the UPDATE
\* changes only such rows; deleteAgent removes exactly such rows.
C18_LookupColumn ==
  [][\A r \in Reqs :
       service = "instructor" =>
         /\ Steps(r, "select") =>
              /\ req'[r].ret.success <=> Hit(r) # {}
              /\ req'[r].ret.success => req'[r].ret.data[1] \in Hit(r)
         /\ Steps(r, "probe") =>
              /\ req'[r].pc = "update" => Hit(r) # {}
              /\ Hit(r) = {} => /\ req'[r].pc = "done"
                                /\ ~req'[r].ret.success
         /\ Steps(r, "update") =>
              /\ agents \ agents' \subseteq Hit(r)
              /\ Hit(r) = {} => agents' = agents
              /\ \A row \in agents' \ agents :
                   \E old \in Hit(r) :
                     /\ old.id = row.id /\ old.agent_id = row.agent_id
                     /\ old.instructor_id = row.instructor_id
         /\ Steps(r, "delete") =>
              /\ agents' = agents \ Hit(r)
              /\ req'[r].ret.success <=> Hit(r) # {}]_vars

\* C18 witness: a get by an upper-case agent_id and an update by the
\* agent_id have both returned the row, and a row exists.
C18_Witness ==
  \E r1, r2 \in Reqs :
    /\ service = "instructor"
    /\ req[r1].pc = "done" /\ req[r1].op = "get"
    /\ req[r1].agentId = UUIDUpper(1) /\ req[r1].resp.success
    /\ req[r2].pc = "done" /\ req[r2].op = "update"
    /\ req[r2].agentId = UUIDOf(1) /\ req[r2].resp.kind = "object"
    /\ req[r2].resp.data[1] \in agents

\* C19: a create whose registration with the training API returned a
\* correlation id ends with a persisted row carrying that id, whatever the
\* INSERT meets; and a create whose payload fails createAgent's own
\* required-field or role check is never at the training-API call and no
\* registration outcome is ever recorded for it.  (The code does not meet
\* the first half: an INSERT that fails after a successful registration
\* leaves the registration without a row.  It meets the second half.)
C19_RegistrationHasRow ==
  [][\A r \in Reqs :
       service = "creator" =>
         /\ (Steps(r, "insert") /\ req[r].tuuid \notin {NULL, UNDEFINED}) =>
              /\ req'[r].ret.success
              /\ req'[r].ret.data[1].training_api_uuid = req[r].tuuid
              /\ req'[r].ret.data[1] \in agents'
         /\ (/\ req'[r].op = "create"
             /\ \/ ~TruthyNum(req'[r].body, "creator_id")
                \/ ~TruthyStr(req'[r].body, "name")
                \/ (Has(req'[r].body, "role")
                    /\ req'[r].body.role \notin validRoles))
              => /\ req'[r].pc \notin {"training", "insert"}
                 /\ req'[r].tuuid = IdleReq.tuuid]_vars

\* Request r names the agent with surrogate id n.
NamesId(r, n) ==
  IF byAgentId(service, req[r].agentId)
    THEN UUIDOf(n) = PgUuid(req[r].agentId)
    ELSE PgInt(req[r].agentId).code = "ok" /\ n = PgInt(req[r].agentId).val

\* Requests r1 and r2 are deletes of one agent by one owner, both entered
\* before either has returned.
DeletesOfOne(r1, r2) ==
  /\ r1 # r2
  /\ req[r1].op = "delete" /\ req[r2].op = "delete"
  /\ req[r1].owner = req[r2].owner

\* Requests r1 and r2 are deleteUserVoice calls for one (user, voice) pair.
UnsavesOfOne(r1, r2) ==
  /\ r1 # r2
  /\ req[r1].op = "unsave" /\ req[r2].op = "unsave"
  /\ req[r1].owner = req[r2].owner /\ req[r1].voiceId = req[r2].voiceId

\* C20: of two deletes of one existing agent by its owner that are in
\* progress together, the one whose DELETE runs first returns success with
\* the deleted id and removes the row, and the other fails with 'Agent not
\* found or access denied' and changes nothing; likewise for two
\* deleteUserVoice calls on one (user, voice) pair, the second failing with
\* 'Voice not found for this user'.
C20_OneDeleteWins ==
  [][\A r1, r2 \in Reqs :
       /\ (/\ DeletesOfOne(r1, r2) /\ Steps(r1, "delete")
           /\ req[r2].pc = "delete"
           /\ OwnRows(r1) # {} /\ OwnRows(r2) = OwnRows(r1))
            => /\ req'[r1].ret.success
               /\ \A row \in OwnRows(r1) : req'[r1].ret.data[1].id = row.id
               /\ agents' = agents \ OwnRows(r1)
       /\ (/\ DeletesOfOne(r1, r2) /\ Steps(r1, "delete")
           /\ Returned(r2) /\ req[r2].ret.success
           /\ NamesId(r1, req[r2].ret.data[1].id))
            => /\ ~req'[r1].ret.success
               /\ req'[r1].ret.message = MsgNotFound
               /\ agents' = agents
       /\ (/\ UnsavesOfOne(r1, r2) /\ Steps(r1, "vdelete")
           /\ req[r2].pc = "vdelete"
           /\ voiceMatching(voices, req[r1].owner, req[r1].voiceId) # {})
            => /\ req'[r1].ret.success
               /\ \A row \in voiceMatching(voices, req[r1].owner,
                                           req[r1].voiceId) :
                    req'[r1].ret.data[1].id = row.id
               /\ voices' = voices \ voiceMatching(voices, req[r1].owner,
                                                   req[r1].voiceId)
       /\ (/\ UnsavesOfOne(r1, r2) /\ Steps(r1, "vdelete")
           /\ Returned(r2) /\ req[r2].ret.success)
            => /\ ~req'[r1].ret.success
               /\ req'[r1].ret.message = MsgVoiceNotFound
               /\ voices' = voices]_vars

\* C20 witness: two deletes of one agent that were in progress together
\* have both returned, one with the deleted id and one with not found.
C20_Witness ==
  \E r1, r2 \in Reqs :
    /\ DeletesOfOne(r1, r2)
    /\ req[r1].pc = "done" /\ req[r2].pc = "done"
    /\ req[r1].resp.success /\ NamesId(r2, req[r1].resp.data[1].id)
    /\ ~req[r2].resp.success /\ req[r2].resp.message = MsgNotFound
    /\ req[r1].resp.data[1].id \in deletedIds

\* ------------------------------------------- the services on a small pool
\* A value of the pool's max option under which two requests contend.
SmallPool == 1

InitPool ==
  /\ service \in {"creator", "instructor", "voice"}
  /\ agents = {}
  /\ nextId = 1
  /\ voices = {}
  /\ nextVoiceId = 1
  /\ checkedOut = 0
  /\ poolMax = SmallPool
  /\ pgNonDecimal \in BOOLEAN
  /\ req = [r \in Reqs |-> IdleReq]
  /\ started = 0
  /\ issuedIds = {}
  /\ deletedIds = {}
  /\ voiceHist = [p \in VoicePairs |-> [saved |-> 0, already |-> 0, deleted |-> 0]]

\* The requests sent to the services on the small pool: for each operation
\* one that succeeds on an existing agent or voice and those that throw
\* (before the first statement, at it, or after it).
NextPool ==
  \E r \in Reqs :
    \/ \E body \in { [creator_id |-> 1, name |-> "Bot"],
                     [creator_id |-> 1, name |-> "Bot", role |-> "vip"],
                     [creator_id |-> 3, name |-> "Bot"] } :
         PostAgents(r, body)
    \/ GetAgents(r, <<"1">>)
    \/ GetAgent(r, <<"1">>, <<"1">>)
    \/ \E body \in { [creator_id |-> 1, name |-> "Bot2"],
                     [creator_id |-> 1, id |-> 9] } :
         PutAgent(r, <<"1">>, body)
    \/ DeleteAgentRoute(r, <<"1">>, <<"1">>)
    \/ \E data \in { [instructor_id |-> 1, name |-> "Bot"],
                     [instructor_id |-> 1, name |-> "Bot",
                      visibility |-> "secret"],
                     [instructor_id |-> 3, name |-> "Bot"] } :
         InstructorCall(r, "create", <<>>, 0, data)
    \/ InstructorCall(r, "list", <<>>, 1, <<>>)
    \/ InstructorCall(r, "get", <<"1">>, 1, <<>>)
    \/ InstructorCall(r, "update", <<"1">>, 1, [name |-> "Bot2"])
    \/ InstructorCall(r, "delete", <<"1">>, 1, <<>>)
    \/ VoiceCall(r, "clone", 1, "alloy")
    \/ VoiceCall(r, "voices", 1, "")
    \/ VoiceCall(r, "unsave", 1, "alloy")
    \/ DebugSchema(r)
    \/ \E query \in {<<>>, [user_id |-> <<"u", "1">>]} : DebugUser(r, query)
    \/ Connect(r)
    \/ \E outcome \in TrainingOutcomes : TrainingReturns(r, outcome)
    \/ ExecInsert(r)
    \/ ExecList(r)
    \/ ExecSelect(r)
    \/ ExecProbe(r)
    \/ ExecUpdate(r)
    \/ ExecDelete(r)
    \/ ExecVoiceInsert(r)
    \/ ExecVoiceSelect(r)
    \/ ExecVoiceList(r)
    \/ ExecVoiceDelete(r)
    \/ ExecSchema(r)
    \/ ExecUserSelect(r)
    \/ Answer(r)
    \/ Reset(r)

\* What the runtime does for a request once it has been received: the
\* pool hands a free client to a waiting connect(), a statement sent to the
\* database returns, the training API call returns.
Progress(r) ==
  \/ Connect(r)
  \/ \E outcome \in TrainingOutcomes : TrainingReturns(r, outcome)
  \/ ExecInsert(r)
  \/ ExecList(r)
  \/ ExecSelect(r)
  \/ ExecProbe(r)
  \/ ExecUpdate(r)
  \/ ExecDelete(r)
  \/ ExecVoiceInsert(r)
  \/ ExecVoiceSelect(r)
  \/ ExecVoiceList(r)
  \/ ExecVoiceDelete(r)
  \/ ExecSchema(r)
  \/ ExecUserSelect(r)
  \/ Answer(r)

SpecPool ==
  InitPool /\ [][NextPool]_vars /\ \A r \in Reqs : WF_vars(Progress(r))

\* C21: no request waits for a connection while it holds one, no request
\* ever holds more than one, and (every statement and the training-API call
\* returning) every request that waits for a connection acquires one and
\* completes.
C21_NoPoolDeadlock ==
  /\ [](\A r \in Reqs :
          /\ req[r].pc = "connect" => req[r].acq = 0 /\ req[r].rel = 0
          /\ req[r].acq - req[r].rel \in {0, 1}
          /\ checkedOut <= poolMax)
  /\ \A r \in Reqs : (req[r].pc = "connect") ~> (req[r].pc = "done")

\* C21 witness: on a pool of one connection a create that had to wait for
\* the connection has returned its row while the other request, which
\* arrived after it, holds the connection.
C21_Witness ==
  \E r1, r2 \in Reqs :
    /\ poolMax = 1
    /\ req[r1].pc = "done" /\ req[r1].waited /\ req[r1].acq = 1
    /\ req[r1].op \in {"create", "clone"} /\ req[r1].resp.success
    /\ Holding(r2) /\ checkedOut = 1

====
